---- MODULE Spec2Model ----
(***************************************************************************)
(* Model of the company-analysis pipeline: name cleaner, exclusion filter, *)
(* Basic and Enhanced classifiers, chunked CSV reader and the analyzer's   *)
(* aggregation.                                                            *)
(*                                                                         *)
(* Strings.  A name is a sequence of symbols; a symbol is either one       *)
(* whitespace character " " or a whole word of the vocabulary Words.       *)
(* Two words are never adjacent (a word is a maximal run of non-blank      *)
(* characters), so str.split() yields exactly the word symbols.  What a    *)
(* regular expression of the source matches is given word by word by the   *)
(* tables below.                                                           *)
(***************************************************************************)
EXTENDS Integers, Sequences, FiniteSets, TLC

\* ------------------------------------------------------------------ bounds
\* longest input name, in symbols
MaxLen == 3
\* longest input of the name cleaner, in symbols
MaxCleanLen == 5
\* longest dataset, in rows
MaxRows == 2
\* the longest output_formats list given to save_results
MaxFormats == 2
\* the number of save_results calls on one results manager
MaxSaves == 2
\* the number of analyze() calls on one analyzer
MaxRuns == 2
\* the number of POST /analyze requests the MCP server accepts
MaxAnalyses == 2

\* ------------------------------------------------------------------ state
VARIABLES
    known_companies,  \* the set object config.known_companies
    det_variant,      \* per detector instance: "basic" or "enhanced"
    det_added,        \* history: the names each instance added itself
    det_result,       \* per instance: the last classification result
    input,            \* the value handed to the classifier or the cleaner
    oracle,           \* what the NLP backends answer for the input's text
    cleaned,          \* the successive outputs of the name cleaner
    file_rows,        \* the data rows of the source CSV file, in order
    file_state,       \* [kind, row]: "ok", "missing", or unreadable at a row
    nlp_answers,      \* what the NLP backends answer, per cleaned name
    filter_type,      \* 'all', 'folders' or 'files'
    chunk_size,       \* per analyzer
    an_pc,            \* per analyzer: "idle", "running", "done"
    an_ok,            \* per analyzer: what analyze() returned
    companies,        \* per analyzer: self.companies, name -> count
    company_details,  \* per analyzer: self.company_details
    stats,            \* per analyzer: self.stats
    all_companies,    \* per analyzer: the local list of _process_csv_file
    gen,              \* per analyzer: the get_chunks generator, [enc, pos]
    handed,           \* history: the rows handed to row processing in the current run
    an_runs,          \* per analyzer: the number of analyze() calls that returned
    first_run,        \* per analyzer: the maps and counters its first call left
    cfg,              \* the settings of the module-level config object
    backend,          \* the spaCy model: "available" or "unavailable"
    cat_abbreviations, \* NameCategorizer.common_abbreviations added at run time
    cat_result,       \* the last result of categorize_name
    save_companies,   \* save_results argument: the frequency map is non-empty
    save_formats,     \* save_results argument output_formats
    write_fails,      \* the output files whose writer fails
    created_files,    \* what save_results returned
    disk,             \* the output files that were written
    save_calls,       \* the number of save_results calls made
    analysis_results, \* MCP server: the registry, analysis id -> record
    analysis_counter, \* MCP server: the number of analyses started
    mcp_task,         \* per analysis id: the background task, [pc, enable_ai, ai_failed]
    mcp_history,      \* history: per analysis id, the statuses written to its record
    mcp_deleted,      \* history: the analysis ids deleted
    ai_analyzer,      \* MCP server: whether the AI analyzer was initialized
    pattern_lists,    \* AnalyzerConfig.exclude_patterns and company_indicators
    pattern_cache,    \* AnalyzerConfig._compiled_patterns_cache and _compiled_indicators_cache
    lru,              \* the lru_cache entries of the two get_compiled methods
    cfg_raised,       \* whether the last AnalyzerConfig call raised ConfigurationError
    enable_caching,   \* AnalyzerConfig.enable_caching
    cfg_call          \* the last AnalyzerConfig call: its name, argument and return value

\* ------------------------------------------------------------------ words
SP == " "

\* words a generated input name may contain
InputWords == {"2023", "AU", "AGL", "Acme", "Corp", "#", "erp,", "v2", "api", "figure1"}

\* words that only arise from str() of a non-string cell (NaN, 123)
\* and the one word of the vocabulary listed in exclude_words
Words == InputWords \cup {"nan", "123", "Sales"}

Sym == Words \cup {SP}

\* number of characters of a word
WordLen(w) ==
    CASE w = "#" -> 1
      [] w \in {"AU", "v2"} -> 2
      [] w \in {"AGL", "api", "nan", "123"} -> 3
      [] w \in {"2023", "Acme", "Corp", "erp,"} -> 4
      [] w = "Sales" -> 5
      [] w = "figure1" -> 7
      [] OTHER -> 1

\* str.isalpha()
IsAlpha(w) == w \in {"AU", "AGL", "Acme", "Corp", "api", "nan", "Sales"}

\* w[0].isupper()
FirstUpper(w) == w \in {"AU", "AGL", "Acme", "Corp", "Sales"}

\* the names of exactly n symbols over the input vocabulary: a word is
\* appended only after a blank, so no two words are adjacent
RECURSIVE NamesOfLen(_)
NamesOfLen(n) ==
    IF n = 0 THEN {<<>>}
    ELSE {Append(s, x) : s \in NamesOfLen(n - 1), x \in {SP}}
         \cup {Append(s, w) : s \in {t \in NamesOfLen(n - 1) : t = <<>> \/ t[Len(t)] = SP},
                              w \in InputWords}

NamesUpTo(n) == UNION {NamesOfLen(k) : k \in 0..n}

\* every input name of at most MaxLen symbols
Names == NamesUpTo(MaxLen)

\* len(s) in characters
RECURSIVE StrLen(_)
StrLen(s) == IF s = <<>> THEN 0
             ELSE (IF Head(s) = SP THEN 1 ELSE WordLen(Head(s))) + StrLen(Tail(s))

\* str.split(): the words, in order
Split(s) == SelectSeq(s, LAMBDA x : x # SP)

RECURSIVE LStrip(_)
LStrip(s) == IF s # <<>> /\ Head(s) = SP THEN LStrip(Tail(s)) ELSE s

RECURSIVE RStrip(_)
RStrip(s) == IF s # <<>> /\ s[Len(s)] = SP THEN RStrip(SubSeq(s, 1, Len(s) - 1)) ELSE s

\* str.strip()
Strip(s) == RStrip(LStrip(s))

\* re.sub(r'\s+', ' ', s)
RECURSIVE CollapseSpaces(_)
CollapseSpaces(s) ==
    IF Len(s) < 2 THEN s
    ELSE IF s[1] = SP /\ s[2] = SP THEN CollapseSpaces(Tail(s))
    ELSE <<Head(s)>> \o CollapseSpaces(Tail(s))

\* ------------------------------------------------------------------ values
\* a cell or argument value: a string, None, NaN (missing cell), 0, 123
StrVal(s) == [kind |-> "str", s |-> s]
NoneVal == [kind |-> "none", s |-> <<>>]
NaNVal == [kind |-> "nan", s |-> <<>>]
ZeroVal == [kind |-> "zero", s |-> <<>>]
NumVal == [kind |-> "num", s |-> <<>>]

NonStrings == {NoneVal, NaNVal, ZeroVal, NumVal}

\* Python truthiness: `not v`
Falsy(v) == v.kind \in {"none", "zero"} \/ (v.kind = "str" /\ v.s = <<>>)

\* str(v)
Str(v) ==
    CASE v.kind = "str" -> v.s
      [] v.kind = "nan" -> <<"nan">>
      [] v.kind = "num" -> <<"123">>
      [] OTHER -> <<>>

\* ------------------------------------------------------------------ name cleaner
\* re.sub(r'^\d{4}\s+', '', name)
StripYear(s) ==
    IF Len(s) >= 2 /\ s[1] = "2023" /\ s[2] = SP THEN LStrip(Tail(s)) ELSE s

\* re.sub(r'^(AU|US|UK|NZ)\s+', '', name)
StripCountry(s) ==
    IF Len(s) >= 2 /\ s[1] = "AU" /\ s[2] = SP THEN LStrip(Tail(s)) ELSE s

\* CompanyDetector.clean_company_name / EnhancedCompanyDetector.clean_company_name
clean_company_name(v) ==
    IF Falsy(v) THEN <<>>
    ELSE Strip(CollapseSpaces(StripCountry(StripYear(Strip(Str(v))))))

\* ------------------------------------------------------------------ configuration
\* the settings _load_defaults reads from the environment: the defaults, and
\* a run with ANALYZER_MIN_COMPANY_LENGTH=3, ANALYZER_CONFIDENCE_THRESHOLD=0.5
DefaultConfig == [min_company_name_length |-> 2, confidence_threshold |-> <<3, 0>>]
CustomConfig == [min_company_name_length |-> 3, confidence_threshold |-> <<5, 0>>]
Configs == {DefaultConfig, CustomConfig}

\* config.min_company_name_length, config.confidence_threshold
min_company_name_length == cfg.min_company_name_length
confidence_threshold == cfg.confidence_threshold
max_company_name_length == 50

\* AnalyzerConfig.exclude_patterns, in list order.  Of the configured
\* patterns only  ^\d{4}.*  and  .*[#@].*  match a name over the vocabulary.
exclude_patterns == <<"year_prefixed", "special_chars">>

\* compiled exclusion pattern p, pattern.match(s)
PatternMatch(p, s) ==
    CASE p = "year_prefixed" -> s # <<>> /\ s[1] = "2023"
      [] p = "special_chars" -> \E i \in 1..Len(s) : s[i] = "#"
      [] OTHER -> FALSE

\* AnalyzerConfig.company_indicators; only \b(inc|...|corp|...)\b matches
\* a word of the vocabulary
company_indicators == <<"legal_suffix">>

\* compiled indicator p, indicator.search(s)
IndicatorSearch(p, s) ==
    CASE p = "legal_suffix" -> \E i \in 1..Len(s) : s[i] = "Corp"
      [] OTHER -> FALSE

\* AnalyzerConfig.known_companies as loaded by _load_defaults
DefaultKnownCompanies == {<<"AGL">>}

\* AnalyzerConfig.exclude_words
exclude_words == {"Sales"}

\* ------------------------------------------------------------------ floats
\* A confidence is an IEEE-754 double, written <<t, k>>: the double k units
\* in the last place away from the double nearest to t/10 (for t = 0, k is
\* the sign of the value).  Lexicographic order is numeric order.
FZero == <<0, 0>>
FOne == <<10, 0>>
FThreshold == <<3, 0>>

\* x + d/10 in double arithmetic, for the sums the scorer can form
FAddTable ==
    { <<<<-4, 0>>, 1, <<-3, -1>>>>, <<<<-4, 0>>, 2, <<-2, 0>>>>,
      <<<<-2, 0>>, 1, <<-1, 0>>>>,  <<<<-2, 0>>, 2, <<0, 0>>>>,
      <<<<-1, -2>>, 1, <<0, -1>>>>, <<<<-1, -2>>, 2, <<1, -2>>>>,
      <<<<0, 0>>, -4, <<-4, 0>>>>,  <<<<0, 0>>, 1, <<1, 0>>>>,
      <<<<0, 0>>, 2, <<2, 0>>>>,    <<<<0, 0>>, 3, <<3, 0>>>>,
      <<<<0, 0>>, 4, <<4, 0>>>>,    <<<<1, -2>>, 1, <<2, -1>>>>,
      <<<<1, -2>>, 2, <<3, 0>>>>,   <<<<2, 0>>, 1, <<3, 1>>>>,
      <<<<2, 0>>, 2, <<4, 0>>>>,    <<<<3, -1>>, 1, <<4, -2>>>>,
      <<<<3, -1>>, 2, <<5, -1>>>>,  <<<<3, 0>>, -4, <<-1, -2>>>>,
      <<<<3, 0>>, 1, <<4, 0>>>>,    <<<<3, 0>>, 2, <<5, 0>>>>,
      <<<<4, 0>>, -4, <<0, 0>>>>,   <<<<4, 0>>, 1, <<5, 0>>>>,
      <<<<4, 0>>, 2, <<6, 1>>>>,    <<<<4, 0>>, 3, <<7, 0>>>>,
      <<<<5, -1>>, 1, <<6, 0>>>>,   <<<<5, -1>>, 2, <<7, 0>>>>,
      <<<<5, 0>>, 1, <<6, 0>>>>,    <<<<5, 0>>, 2, <<7, 0>>>>,
      <<<<6, 1>>, 1, <<7, 1>>>>,    <<<<6, 1>>, 2, <<8, 0>>>>,
      <<<<7, 0>>, -4, <<3, -1>>>>,  <<<<7, 0>>, 1, <<8, -1>>>>,
      <<<<7, 0>>, 2, <<9, -1>>>>,   <<<<9, -1>>, 1, <<10, -1>>>>,
      <<<<9, -1>>, 2, <<11, -1>>>> }

FAdd(x, d) == (CHOOSE e \in FAddTable : e[1] = x /\ e[2] = d)[3]

\* x > y
FGreater(x, y) == x[1] > y[1] \/ (x[1] = y[1] /\ x[2] > y[2])

\* min(x, y)
FMin(x, y) == IF FGreater(x, y) THEN y ELSE x

\* ------------------------------------------------------------------ exclusion filter
\* is_technical_file with the pattern loop left after its first pattern
is_technical_file_first_pattern(v) ==
    IF Falsy(v) THEN TRUE
    ELSE PatternMatch(exclude_patterns[1], Strip(Str(v)))

\* CompanyDetector.is_technical_file / EnhancedCompanyDetector.is_technical_file
is_technical_file(v) ==
    IF Falsy(v) THEN TRUE
    ELSE LET name == Strip(Str(v))
         IN  \E i \in 1..Len(exclude_patterns) : PatternMatch(exclude_patterns[i], name)

\* ------------------------------------------------------------------ Basic classifier
\* the capitalization rule shared by both classifiers:
\* "multi" for >= 2 words, all alphabetic and capitalized; "single" for one
\* capitalized alphabetic word of 3..max length outside exclude_words
CapitalizationRule(name) ==
    LET words == Split(name)
    IN  IF Len(words) >= 2
        THEN IF \A i \in 1..Len(words) : FirstUpper(words[i]) /\ IsAlpha(words[i])
             THEN "multi" ELSE "none"
        ELSE IF Len(words) = 1
        THEN IF /\ FirstUpper(words[1])
                /\ IsAlpha(words[1])
                /\ 3 <= WordLen(words[1])
                /\ WordLen(words[1]) <= max_company_name_length
                /\ words[1] \notin exclude_words
             THEN "single" ELSE "none"
        ELSE "none"

\* some compiled indicator matches
AnyIndicator(name) ==
    \E i \in 1..Len(company_indicators) : IndicatorSearch(company_indicators[i], name)

\* is_likely_company without the indicator loop
is_likely_company_basic_no_indicators(v, known) ==
    IF ~Falsy(v) /\ v.kind # "str" THEN [raised |-> TRUE, value |-> FALSE]
    ELSE IF Falsy(v) \/ StrLen(v.s) < min_company_name_length
    THEN [raised |-> FALSE, value |-> FALSE]
    ELSE LET name == Strip(Str(v))
         IN  [raised |-> FALSE,
              value |-> IF is_technical_file(StrVal(name)) THEN FALSE
                        ELSE IF name \in known THEN TRUE
                        ELSE CapitalizationRule(name) # "none"]

\* CompanyDetector.is_likely_company: [raised, value]; raised is the
\* TypeError of len() on a non-string
is_likely_company_basic(v, known) ==
    IF ~Falsy(v) /\ v.kind # "str" THEN [raised |-> TRUE, value |-> FALSE]
    ELSE IF Falsy(v) \/ StrLen(v.s) < min_company_name_length
    THEN [raised |-> FALSE, value |-> FALSE]
    ELSE LET name == Strip(Str(v))
         IN  [raised |-> FALSE,
              value |-> IF is_technical_file(StrVal(name)) THEN FALSE
                        ELSE IF name \in known THEN TRUE
                        ELSE IF AnyIndicator(name) THEN TRUE
                        ELSE CapitalizationRule(name) # "none"]

\* ------------------------------------------------------------------ Enhanced classifier
\* w.lower() in self.technical_terms
TechnicalTerm(w) == w = "api"

\* EnhancedCompanyDetector.is_version_number: of its patterns only  v\d+
\* is found in a name over the vocabulary
is_version_number(text) == \E i \in 1..Len(text) : text[i] = "v2"

\* EnhancedCompanyDetector.is_technical_reference
is_technical_reference(text) ==
    LET words == Split(text)
        technical_words == SelectSeq(words, TechnicalTerm)
    IN  \/ \E i \in 1..Len(text) : text[i] \in {"api", "v2"}
        \/ Len(words) > 0 /\ Len(technical_words) * 10 > 3 * Len(words)

\* EnhancedCompanyDetector.is_document_structure: of its patterns only
\* figure\s*\d+  is found in a name over the vocabulary
is_document_structure(text) == \E i \in 1..Len(text) : text[i] = "figure1"

\* nltk.word_tokenize: the tokens of one word (punctuation is split off)
NltkTokens(w) == IF w = "erp," THEN <<"erp", ",">> ELSE <<w>>

RECURSIVE word_tokenize(_)
word_tokenize(text) ==
    IF text = <<>> THEN <<>>
    ELSE (IF Head(text) = SP THEN <<>> ELSE NltkTokens(Head(text))) \o word_tokenize(Tail(text))

\* word.lower() in self.technical_terms, for a token
TechnicalToken(t) == t \in {"api", "erp"}

\* What the NLP backends answer for one text: org, spaCy tags an ORG, PERSON
\* or GPE entity (FALSE also when the model is not loaded or the call
\* fails); nltk_ok, tokenizing and tagging succeed; np, the number of
\* tokens tagged NNP or NNPS.
BackendAnswers(text) ==
    {o \in [org : BOOLEAN, spacy_ok : BOOLEAN, nltk_ok : BOOLEAN,
            np : 0..Len(word_tokenize(text))] :
        /\ ~o.nltk_ok => o.np = 0
        /\ ~o.spacy_ok => ~o.org}

\* EnhancedCompanyDetector.analyze_with_spacy
analyze_with_spacy(text, o) == [is_organization |-> o.org]

\* EnhancedCompanyDetector.analyze_with_nltk; the ratios are kept as
\* numerator and denominator
analyze_with_nltk(text, o) ==
    LET tokens == word_tokenize(text)
    IN  IF o.nltk_ok
        THEN [tokens |-> Len(tokens),
              proper_nouns |-> o.np,
              technical_count |-> Len(SelectSeq(tokens, TechnicalToken))]
        ELSE [tokens |-> 0, proper_nouns |-> 0, technical_count |-> 0]

\* nltk_result['proper_noun_ratio'] > 0.7
HighProperNouns(r) == r.tokens > 0 /\ r.proper_nouns * 10 > 7 * r.tokens

\* nltk_result['technical_ratio'] > 0.3
HighTechnicalTerms(r) == r.tokens > 0 /\ r.technical_count * 10 > 3 * r.tokens

Rejected(reason) ==
    [raised |-> FALSE, is_company |-> FALSE, confidence |-> FZero, reasons |-> <<reason>>]

\* the confidence as reported in the result dictionary
ReportedConfidence(confidence) == FMin(confidence, FOne)

\* steps 6-10 and the final decision of enhanced_company_detection
Scoring(text, o) ==
    LET spacy_result == analyze_with_spacy(text, o)
        nltk_result == analyze_with_nltk(text, o)
        s6 == spacy_result.is_organization
        s7a == HighProperNouns(nltk_result)
        s7b == HighTechnicalTerms(nltk_result)
        s8 == AnyIndicator(text)
        s9 == CapitalizationRule(text)
        c6 == IF s6 THEN FAdd(FZero, 4) ELSE FZero
        c7a == IF s7a THEN FAdd(c6, 3) ELSE c6
        c7b == IF s7b THEN FAdd(c7a, -4) ELSE c7a
        c8 == IF s8 THEN FAdd(c7b, 2) ELSE c7b
        c9 == CASE s9 = "multi" -> FAdd(c8, 2)
                [] s9 = "single" -> FAdd(c8, 1)
                [] OTHER -> c8
        reasons == (IF s6 THEN <<"spacy_organization">> ELSE <<>>)
                   \o (IF s7a THEN <<"high_proper_nouns">> ELSE <<>>)
                   \o (IF s7b THEN <<"high_technical_terms">> ELSE <<>>)
                   \o (IF s8 THEN <<"company_indicator">> ELSE <<>>)
                   \o (CASE s9 = "multi" -> <<"multiple_capitalized">>
                         [] s9 = "single" -> <<"single_proper_noun">>
                         [] OTHER -> <<>>)
    IN  [raised |-> FALSE,
         is_company |-> FGreater(c9, FThreshold),
         confidence |-> ReportedConfidence(c9),
         reasons |-> reasons,
         score |-> c9]

\* step 5 without the known-company check
KnownCompanyStep_skipped(text, known, o) == Scoring(text, o)

\* the known-company check of step 5, placed where the code places it
KnownCompanyStep(text, known, o) ==
    IF text \in known
    THEN [raised |-> FALSE, is_company |-> TRUE, confidence |-> FOne,
          reasons |-> <<"known_company">>]
    ELSE Scoring(text, o)

\* EnhancedCompanyDetector.enhanced_company_detection; raised is the
\* TypeError of len() on a non-string
enhanced_company_detection(v, known, o) ==
    IF ~Falsy(v) /\ v.kind # "str"
    THEN [raised |-> TRUE, is_company |-> FALSE, confidence |-> FZero, reasons |-> <<>>]
    ELSE IF Falsy(v) \/ StrLen(v.s) < 2 THEN Rejected("too_short")
    ELSE LET text == Strip(Str(v))
         IN  IF is_technical_file(StrVal(text)) THEN Rejected("technical_file")
             ELSE IF is_version_number(text) THEN Rejected("version_number")
             ELSE IF is_technical_reference(text) THEN Rejected("technical_reference")
             ELSE IF is_document_structure(text) THEN Rejected("document_structure")
             ELSE KnownCompanyStep(text, known, o)

\* EnhancedCompanyDetector.is_likely_company
is_likely_company_enhanced(v, known, o) ==
    LET result == enhanced_company_detection(v, known, o)
    IN  [raised |-> result.raised, value |-> result.is_company]

\* ------------------------------------------------------------------ state
Inst == {1, 2}

det_vars == <<known_companies, det_variant, det_added, det_result, input, oracle, cleaned,
              cfg, backend>>

cat_vars == <<cat_abbreviations, cat_result>>

save_vars == <<save_companies, save_formats, write_fails, created_files, disk, save_calls>>

an_vars == <<file_rows, file_state, nlp_answers, filter_type, chunk_size, an_pc, an_ok,
             companies, company_details, stats, all_companies, gen, handed,
             an_runs, first_run>>

srv_vars == <<analysis_results, analysis_counter, mcp_task, mcp_history, mcp_deleted,
              ai_analyzer>>

pat_vars == <<pattern_lists, pattern_cache, lru, cfg_raised, enable_caching, cfg_call>>

vars == <<det_vars, an_vars, cat_vars, save_vars, srv_vars, pat_vars>>

EmptyMap == [k \in {} |-> 0]

ZeroStats == [total_rows_processed |-> 0, technical_files_filtered |-> 0,
              type_filtered |-> 0, companies_found |-> 0]

\* no analyze() call has returned yet
NoRun == [companies |-> EmptyMap, company_details |-> EmptyMap, stats |-> ZeroStats]

NeutralAnswer == [org |-> FALSE, spacy_ok |-> TRUE, nltk_ok |-> FALSE, np |-> 0]

\* the analyzers as constructed, with no file to read
NoAnalysis ==
    /\ file_rows = <<>>
    /\ file_state = [kind |-> "missing", row |-> 0]
    /\ nlp_answers = EmptyMap
    /\ filter_type = "all"
    /\ chunk_size = [i \in Inst |-> 1]
    /\ an_pc = [i \in Inst |-> "idle"]
    /\ an_ok = [i \in Inst |-> "none"]
    /\ companies = [i \in Inst |-> EmptyMap]
    /\ company_details = [i \in Inst |-> EmptyMap]
    /\ stats = [i \in Inst |-> ZeroStats]
    /\ all_companies = [i \in Inst |-> <<>>]
    /\ gen = [i \in Inst |-> [enc |-> 1, pos |-> 0]]
    /\ handed = [i \in Inst |-> <<>>]
    /\ an_runs = [i \in Inst |-> 0]
    /\ first_run = [i \in Inst |-> NoRun]

\* no categorizer call and no save_results call
NoCategory == [raised |-> FALSE, category |-> "none yet", description |-> "none yet"]

NoCategorizer ==
    /\ cat_abbreviations = {}
    /\ cat_result = NoCategory

\* no MCP server request yet
NoServer ==
    /\ analysis_results = EmptyMap
    /\ analysis_counter = 0
    /\ mcp_task = EmptyMap
    /\ mcp_history = EmptyMap
    /\ mcp_deleted = {}
    /\ ai_analyzer = FALSE

\* the kinds of pattern list of AnalyzerConfig
PatternKinds == {"exclude_patterns", "company_indicators"}

\* the pattern lists as _load_defaults leaves them: one pattern each stands
\* for the default entries
DefaultPatternLists == [w \in PatternKinds |-> <<"p0">>]

\* no AnalyzerConfig method called yet
NoCall == [op |-> "none yet", kind |-> "none", returned |-> <<>>, changed |-> FALSE]

\* None in a cache slot, and a slot holding a compiled list
None == [set |-> FALSE, value |-> <<>>]

Cached(compiled) == [set |-> TRUE, value |-> compiled]

\* the configuration object as constructed: default lists, no compiled
\* pattern cached
NoPatterns ==
    /\ pattern_lists = DefaultPatternLists
    /\ pattern_cache = [w \in PatternKinds |-> None]
    /\ lru = [w \in PatternKinds |-> None]
    /\ cfg_raised = FALSE
    /\ enable_caching = TRUE
    /\ cfg_call = NoCall

NoSave ==
    /\ save_companies = FALSE
    /\ save_formats = <<>>
    /\ write_fails = {}
    /\ created_files = <<>>
    /\ disk = {}
    /\ save_calls = 0

NoResult == [raised |-> FALSE, is_company |-> FALSE, confidence |-> FZero,
             reasons |-> <<"none yet">>, registry |-> {}, scored |-> FALSE, score |-> FZero]

\* self.known_companies = config.known_companies: every detector instance
\* holds a reference to the one set object owned by the module-level config
DetectorKnown(i) == known_companies

\* ------------------------------------------------------------------ classifier operations
\* CompanyAnalyzer.get_detection_details: the ClassificationResult of the
\* active variant
get_detection_details(variant, v, known, o) ==
    IF variant = "enhanced"
    THEN enhanced_company_detection(v, known, o)
    ELSE LET b == is_likely_company_basic(v, known)
         IN  [raised |-> b.raised,
              is_company |-> b.value,
              confidence |-> IF b.value THEN FOne ELSE FZero,
              reasons |-> IF b.raised THEN <<>> ELSE <<"basic_pattern_matching">>]

\* instance i classifies the input.  Kept with the result, for the
\* properties: the registry the instance saw, whether the candidate reached
\* the scoring steps, and the accumulated confidence before it is capped.
Detect(i) ==
    /\ det_result[i] = NoResult
    /\ LET r == get_detection_details(det_variant[i], input, DetectorKnown(i), oracle)
       IN  det_result' = [det_result EXCEPT ![i] =
               [raised |-> r.raised, is_company |-> r.is_company,
                confidence |-> r.confidence, reasons |-> r.reasons,
                registry |-> DetectorKnown(i),
                scored |-> "score" \in DOMAIN r,
                score |-> IF "score" \in DOMAIN r THEN r.score ELSE FZero]]
    /\ UNCHANGED <<known_companies, det_variant, det_added, input, oracle, cleaned, cfg, backend>>
    /\ UNCHANGED <<an_vars, cat_vars, save_vars, srv_vars, pat_vars>>

\* add_known_company(company_name) on instance i: self.known_companies.add
AddKnownCompany(i) ==
    /\ input.kind = "str"
    /\ input.s \notin det_added[i]
    /\ known_companies' = known_companies \cup {input.s}
    /\ det_added' = [det_added EXCEPT ![i] = @ \cup {input.s}]
    /\ UNCHANGED <<det_variant, det_result, input, oracle, cleaned, cfg, backend>>
    /\ UNCHANGED <<an_vars, cat_vars, save_vars, srv_vars, pat_vars>>

DetectInputs == {StrVal(s) : s \in Names} \cup NonStrings

\* EnhancedCompanyDetector.setup_nlp_models: self.nlp after construction.
\* A failing spacy.load is caught and logged, and leaves self.nlp = None.
setup_nlp_models(b) == IF b = "available" THEN "model" ELSE "None"

\* CompanyAnalyzer.__init__, detector selection: the Enhanced detector
\* unless its constructor raises; using_enhanced_detector tells which
DetectorSelection(raises) == IF raises THEN "basic" ELSE "enhanced"

InitDetect ==
    /\ known_companies = DefaultKnownCompanies
    /\ det_variant \in {[i \in Inst |-> DetectorSelection(raises[i])] : raises \in [Inst -> BOOLEAN]}
    /\ det_added = [i \in Inst |-> {}]
    /\ det_result = [i \in Inst |-> NoResult]
    /\ input \in DetectInputs
    /\ cfg \in Configs
    /\ backend \in {"available", "unavailable"}
    /\ oracle \in {o \in BackendAnswers(Strip(Str(input))) :
                      setup_nlp_models(backend) = "None" => ~o.org /\ o.spacy_ok}
    /\ cleaned = <<>>
    /\ NoAnalysis
    /\ NoCategorizer
    /\ NoSave
    /\ NoServer
    /\ NoPatterns

NextDetect == \E i \in Inst : Detect(i) \/ AddKnownCompany(i)

SpecDetect == InitDetect /\ [][NextDetect]_vars

\* ------------------------------------------------------------------ cleaner operations
\* clean_company_name applied to the input, then to its own output
Clean ==
    /\ Len(cleaned) < 2
    /\ cleaned' = Append(cleaned,
                         clean_company_name(IF cleaned = <<>> THEN input
                                            ELSE StrVal(cleaned[Len(cleaned)])))
    /\ UNCHANGED <<known_companies, det_variant, det_added, det_result, input, oracle, cfg, backend>>
    /\ UNCHANGED <<an_vars, cat_vars, save_vars, srv_vars, pat_vars>>

CleanInputs == {StrVal(s) : s \in NamesUpTo(MaxCleanLen)} \cup NonStrings

InitClean ==
    /\ known_companies = DefaultKnownCompanies
    /\ det_variant = [i \in Inst |-> "enhanced"]
    /\ det_added = [i \in Inst |-> {}]
    /\ det_result = [i \in Inst |-> NoResult]
    /\ input \in CleanInputs
    /\ oracle = NeutralAnswer
    /\ cleaned = <<>>
    /\ cfg = DefaultConfig
    /\ backend = "available"
    /\ NoAnalysis
    /\ NoCategorizer
    /\ NoSave
    /\ NoServer
    /\ NoPatterns

NextClean == Clean

SpecClean == InitClean /\ [][NextClean]_vars

\* ------------------------------------------------------------------ name categorizer
\* every category tag categorize_name can return: those of pattern_rules and
\* those of its return statements
KnownCategories ==
    {"Version Number", "Build Number", "Release Number", "Document Section",
     "Document Chapter", "Page Number", "Document Appendix", "File Extension",
     "Image File", "Video File", "Audio File", "Technical Term", "Software Component",
     "Environment/Testing", "Business Process", "Reporting/Analytics",
     "Training/Education", "Project Management", "Meeting/Event", "Location/Facility",
     "Geographic Reference", "Time Period", "Date Reference", "Code/Identifier",
     "Numeric Identifier", "Single Letter", "Two-Letter Code",
     "Unknown", "Abbreviation", "Company", "Industry Term", "Short Code",
     "Code/Reference", "Numeric Code", "Acronym", "Single Name", "Single Term",
     "Potential Company", "Multi-word Term", "Unclassified"}

\* NameCategorizer.common_abbreviations as built by __init__: of its keys
\* only 'API' is (the upper case of) a name over the vocabulary
common_abbreviations == {<<"api">>}

\* NameCategorizer.pattern_rules, in list order.  Of the rules only
\* .*\b(api|sdk|...)\b.* , ^[A-Z]{1,3}\d{1,6}$ , ^\d{4,10}$ and ^[A-Z]{2}$
\* match a name over the vocabulary.
pattern_rules == <<"software_component", "letters_digits", "digits_4_10", "two_letters">>

\* re.match(pattern, name_lower, re.IGNORECASE)
RuleMatch(p, s) ==
    CASE p = "software_component" -> \E i \in 1..Len(s) : s[i] = "api"
      [] p = "letters_digits" -> s = <<"v2">>
      [] p = "digits_4_10" -> s = <<"2023">>
      [] p = "two_letters" -> s = <<"AU">>
      [] OTHER -> FALSE

Category(category, description) ==
    [raised |-> FALSE, category |-> category, description |-> description]

\* a rule's (category, description) with the two fields taken in the wrong order
RuleResult_swapped(p) ==
    CASE p = "software_component" -> Category("Software development component", "Software Component")
      [] p = "letters_digits" -> Category("Code or identifier reference", "Code/Identifier")
      [] p = "digits_4_10" -> Category("Numeric identifier or reference number", "Numeric Identifier")
      [] OTHER -> Category("Two-letter code or abbreviation", "Two-Letter Code")

\* the (category, description) of a pattern rule
RuleResult(p) ==
    CASE p = "software_component" -> Category("Software Component", "Software development component")
      [] p = "letters_digits" -> Category("Code/Identifier", "Code or identifier reference")
      [] p = "digits_4_10" -> Category("Numeric Identifier", "Numeric identifier or reference number")
      [] OTHER -> Category("Two-Letter Code", "Two-letter code or abbreviation")

\* word in self.known_companies (lower case): no word of the vocabulary
CategorizerKnownWord(w) == w \in {}

\* some indicator of the list of step 4 is a substring of the word
\* ('ag' of AGL, 'co' of Corp, 'sa' of Sales)
ContainsIndicator(w) == w \in {"AGL", "Corp", "Sales"}

\* some industry term is a substring of the word ('sales' of Sales)
ContainsIndustryTerm(w) == w = "Sales"

\* the word has a lower-case letter / has letters, all of them upper case
HasLower(w) == w \in {"Acme", "Corp", "erp,", "v2", "api", "figure1", "nan", "Sales"}
AllUpper(w) == w \in {"AU", "AGL"}

\* str.isupper, str.isdigit, str.istitle
IsUpper(s) == (\E i \in 1..Len(s) : AllUpper(s[i])) /\ (\A i \in 1..Len(s) : ~HasLower(s[i]))
IsDigit(s) == Len(s) = 1 /\ s[1] \in {"2023", "123"}
IsTitle(w) == w \in {"Acme", "Corp", "Sales"}

\* steps 7-10 of categorize_name and its default fallback, without the
\* length step 6
ShapeFallback_without_length(name_clean) ==
    LET words == Split(name_clean)
    IN  IF \E i \in 1..Len(name_clean) : name_clean[i] = "#"
        THEN Category("Code/Reference", "Code or reference with special characters")
        ELSE IF IsDigit(name_clean) THEN Category("Numeric Code", "Numeric identifier")
        ELSE IF IsUpper(name_clean) THEN Category("Acronym", "Likely acronym or abbreviation")
        ELSE IF Len(words) = 1
        THEN IF IsTitle(words[1]) THEN Category("Single Name", "Single capitalized name")
             ELSE Category("Single Term", "Single term or identifier")
        ELSE IF Len(words) >= 2
        THEN IF \A i \in 1..Len(words) : FirstUpper(words[i])
             THEN Category("Potential Company", "Multiple capitalized words, likely business name")
             ELSE Category("Multi-word Term", "Multi-word term or phrase")
        ELSE Category("Unclassified", "Unclassified name")

\* steps 6-10 of categorize_name and its default fallback
ShapeFallback(name_clean) ==
    LET words == Split(name_clean)
    IN  IF StrLen(name_clean) <= 3
        THEN IF IsUpper(name_clean) THEN Category("Abbreviation", "Likely abbreviation")
             ELSE Category("Short Code", "Short code or reference")
        ELSE IF \E i \in 1..Len(name_clean) : name_clean[i] = "#"
        THEN Category("Code/Reference", "Code or reference with special characters")
        ELSE IF IsDigit(name_clean) THEN Category("Numeric Code", "Numeric identifier")
        ELSE IF IsUpper(name_clean) THEN Category("Acronym", "Likely acronym or abbreviation")
        ELSE IF Len(words) = 1
        THEN IF IsTitle(words[1]) THEN Category("Single Name", "Single capitalized name")
             ELSE Category("Single Term", "Single term or identifier")
        ELSE IF Len(words) >= 2
        THEN IF \A i \in 1..Len(words) : FirstUpper(words[i])
             THEN Category("Potential Company", "Multiple capitalized words, likely business name")
             ELSE Category("Multi-word Term", "Multi-word term or phrase")
        ELSE Category("Unclassified", "Unclassified name")

\* NameCategorizer.categorize_name with the abbreviations added at run time;
\* raised is the AttributeError of .strip() on a truthy non-string
categorize_name(v, added) ==
    IF Falsy(v) THEN Category("Unknown", "Empty or invalid name")
    ELSE IF v.kind # "str"
    THEN [raised |-> TRUE, category |-> "null", description |-> "null"]
    ELSE LET name_clean == Strip(v.s)
             matching == {k \in 1..Len(pattern_rules) : RuleMatch(pattern_rules[k], name_clean)}
             first == CHOOSE k \in matching : \A j \in matching : k <= j
         IN  IF name_clean \in common_abbreviations \cup added
             THEN Category("Abbreviation", "expansion")
             ELSE IF matching # {} THEN RuleResult(pattern_rules[first])
             ELSE IF \E i \in 1..Len(name_clean) : CategorizerKnownWord(name_clean[i])
             THEN Category("Company", "Known business entity")
             ELSE IF \E i \in 1..Len(name_clean) : ContainsIndicator(name_clean[i])
             THEN Category("Company", "Business entity with corporate indicator")
             ELSE IF \E i \in 1..Len(name_clean) : ContainsIndustryTerm(name_clean[i])
             THEN Category("Industry Term", "industry term")
             ELSE ShapeFallback(name_clean)

\* categorize_name(input)
Categorize ==
    /\ cat_result = NoCategory
    /\ cat_result' = categorize_name(input, cat_abbreviations)
    /\ UNCHANGED <<cat_abbreviations, det_vars, an_vars, save_vars, srv_vars, pat_vars>>

\* add_custom_abbreviation(input, expansion): the key is abbrev.upper()
AddCustomAbbreviation ==
    /\ cat_result = NoCategory
    /\ input.kind = "str"
    /\ input.s \notin cat_abbreviations
    /\ cat_abbreviations' = cat_abbreviations \cup {input.s}
    /\ UNCHANGED <<cat_result, det_vars, an_vars, save_vars, srv_vars, pat_vars>>

InitCategorize ==
    /\ known_companies = DefaultKnownCompanies
    /\ det_variant = [i \in Inst |-> "enhanced"]
    /\ det_added = [i \in Inst |-> {}]
    /\ det_result = [i \in Inst |-> NoResult]
    /\ input \in DetectInputs
    /\ oracle = NeutralAnswer
    /\ cleaned = <<>>
    /\ cfg = DefaultConfig
    /\ backend = "available"
    /\ NoAnalysis
    /\ NoCategorizer
    /\ NoSave
    /\ NoServer
    /\ NoPatterns

NextCategorize == Categorize \/ AddCustomAbbreviation

SpecCategorize == InitCategorize /\ [][NextCategorize]_vars

\* ------------------------------------------------------------------ results manager
\* the file names of one ResultsManager: base_filename and timestamp are
\* fixed at construction
basic_file == "companies_ts.json"
detailed_file == "companies_detailed_ts.json"
csv_file == "companies_ts.csv"
txt_file == "companies_ts.txt"

OutputFiles == {basic_file, detailed_file, csv_file, txt_file}

\* config.output_formats
output_formats == <<"json", "csv", "txt">>

\* the format names a caller passes; "xml" is an unknown format
FormatNames == {"json", "csv", "txt", "xml"}

\* the output_formats arguments: <<>> stands for None and for the empty list
FormatLists == UNION {[1..n -> FormatNames] : n \in 0..MaxFormats}

\* ResultsManager._save_json: the list of the files it wrote
_save_json(fails) ==
    (IF basic_file \in fails THEN <<>> ELSE <<basic_file>>)
    \o (IF detailed_file \in fails THEN <<>> ELSE <<detailed_file>>)

\* ResultsManager._save_csv: the path written, "" when writing failed
_save_csv(fails) == IF csv_file \in fails THEN "" ELSE csv_file

\* ResultsManager._save_txt: the path written, "" when writing failed
_save_txt(fails) == IF txt_file \in fails THEN "" ELSE txt_file

\* one iteration of the format loop of save_results: what it adds to
\* created_files
FormatEntries(format_type, fails) ==
    CASE format_type = "json" -> _save_json(fails)
      [] format_type = "csv" -> <<_save_csv(fails)>>
      [] format_type = "txt" -> <<_save_txt(fails)>>
      [] OTHER -> <<>>

\* the files one iteration of the format loop writes
FormatWrites(format_type, fails) ==
    CASE format_type = "json" -> {basic_file, detailed_file} \ fails
      [] format_type = "csv" -> {csv_file} \ fails
      [] format_type = "txt" -> {txt_file} \ fails
      [] OTHER -> {}

\* the format loop of save_results
RECURSIVE FormatLoop(_, _)
FormatLoop(formats, fails) ==
    IF formats = <<>> THEN <<>>
    ELSE FormatEntries(Head(formats), fails) \o FormatLoop(Tail(formats), fails)

\* ResultsManager.save_results, called with a frequency map that is empty or
\* not, a list of formats, and an environment in which the writers of the
\* files in fails raise
save_results(nonempty, formats, fails) ==
    /\ save_calls < MaxSaves
    /\ save_calls' = save_calls + 1
    /\ save_companies' = nonempty
    /\ save_formats' = formats
    /\ write_fails' = fails
    /\ IF ~nonempty
       THEN /\ created_files' = <<>>
            /\ disk' = disk
       ELSE LET used == IF formats = <<>> THEN output_formats ELSE formats
            IN  /\ created_files' = FormatLoop(used, fails)
                /\ disk' = disk \cup UNION {FormatWrites(used[k], fails) : k \in 1..Len(used)}
    /\ UNCHANGED <<det_vars, an_vars, cat_vars, srv_vars, pat_vars>>

InitSave ==
    /\ known_companies = DefaultKnownCompanies
    /\ det_variant = [i \in Inst |-> "enhanced"]
    /\ det_added = [i \in Inst |-> {}]
    /\ det_result = [i \in Inst |-> NoResult]
    /\ input = StrVal(<<>>)
    /\ oracle = NeutralAnswer
    /\ cleaned = <<>>
    /\ cfg = DefaultConfig
    /\ backend = "available"
    /\ NoAnalysis
    /\ NoCategorizer
    /\ NoSave
    /\ NoServer
    /\ NoPatterns

NextSave ==
    \E nonempty \in BOOLEAN, formats \in FormatLists, fails \in SUBSET OutputFiles :
        save_results(nonempty, formats, fails)

SpecSave == InitSave /\ [][NextSave]_vars

\* ------------------------------------------------------------------ MCP server
\* the analysis ids: analysis_<counter>_<timestamp>, one per counter value
AnalysisIds == 1..MaxAnalyses

\* f with the entry k -> v added or replaced
MapSet(f, k, v) == [x \in DOMAIN f \cup {k} |-> IF x = k THEN v ELSE f[x]]

\* f without the entry k
MapDel(f, k) == [x \in DOMAIN f \ {k} |-> f[x]]

\* the record POST /analyze stores; results and error are absent
RunningRecord == [status |-> "running", results |-> "absent", error |-> "absent"]

\* POST /analyze: a request for a file that exists or not.  A missing file
\* is answered with an error and stores nothing.
analyze_companies(exists, enable_ai) ==
    /\ analysis_counter < MaxAnalyses
    /\ IF exists
       THEN LET analysis_id == analysis_counter + 1
            IN  /\ analysis_counter' = analysis_id
                /\ analysis_results' = MapSet(analysis_results, analysis_id, RunningRecord)
                /\ mcp_task' = MapSet(mcp_task, analysis_id,
                                      [pc |-> "scheduled", enable_ai |-> enable_ai,
                                       ai_failed |-> FALSE])
                /\ mcp_history' = MapSet(mcp_history, analysis_id, <<"running">>)
       ELSE UNCHANGED <<analysis_results, analysis_counter, mcp_task, mcp_history>>
    /\ UNCHANGED <<mcp_deleted, ai_analyzer>>
    /\ UNCHANGED <<det_vars, an_vars, cat_vars, save_vars, pat_vars>>

\* self.analysis_results[analysis_id].update(fields) at the end of the task:
\* the record takes the status and the task is done.  The subscript raises
\* KeyError when the record is gone; inside the try block that lands in the
\* except handler, whose own update raises KeyError again, out of the task.
UpdateRecord(analysis_id, status, results, error, ai_failed) ==
    IF analysis_id \in DOMAIN analysis_results
    THEN /\ analysis_results' = MapSet(analysis_results, analysis_id,
                [status |-> status,
                 results |-> IF results = "absent"
                             THEN analysis_results[analysis_id].results ELSE results,
                 error |-> IF error = "absent"
                           THEN analysis_results[analysis_id].error ELSE error])
         /\ mcp_history' = MapSet(mcp_history, analysis_id,
                                  Append(mcp_history[analysis_id], status))
         /\ mcp_task' = MapSet(mcp_task, analysis_id,
                               [mcp_task[analysis_id] EXCEPT !.pc = "done",
                                                             !.ai_failed = ai_failed])
    ELSE /\ mcp_task' = MapSet(mcp_task, analysis_id,
                               [mcp_task[analysis_id] EXCEPT !.pc = "unhandled error",
                                                             !.ai_failed = ai_failed])
         /\ UNCHANGED <<analysis_results, mcp_history>>

\* the AI step raising with the exception left to the outer handler
AIStepFails_uncaught(analysis_id) ==
    UpdateRecord(analysis_id, "failed", "absent", "message", TRUE)

\* the AI step raises: the inner handler stores ai_analysis_error in the
\* results and the task goes on to the final update
AIStepFails(analysis_id) ==
    UpdateRecord(analysis_id, "completed", "ai_analysis_error", "absent", TRUE)

\* _run_analysis from its start to its first await or to its end:
\* outcome is what CompanyAnalyzer does, "success" and "failure" for
\* analyze() returning True and False, "exception" for a raise
RunAnalysis(analysis_id, outcome) ==
    /\ analysis_id \in DOMAIN mcp_task
    /\ mcp_task[analysis_id].pc = "scheduled"
    /\ CASE outcome = "failure" ->
               UpdateRecord(analysis_id, "failed", "absent", "Company analysis failed", FALSE)
         [] outcome = "exception" ->
               UpdateRecord(analysis_id, "failed", "absent", "message", FALSE)
         [] OTHER ->
               IF mcp_task[analysis_id].enable_ai /\ ai_analyzer
               THEN /\ mcp_task' = MapSet(mcp_task, analysis_id,
                                          [mcp_task[analysis_id] EXCEPT !.pc = "ai_analysis"])
                    /\ UNCHANGED <<analysis_results, mcp_history>>
               ELSE UpdateRecord(analysis_id, "completed", "basic", "absent", FALSE)
    /\ UNCHANGED <<analysis_counter, mcp_deleted, ai_analyzer>>
    /\ UNCHANGED <<det_vars, an_vars, cat_vars, save_vars, pat_vars>>

\* _run_analysis resumed after `await self.ai_analyzer.analyze_companies`
AIAnalysisReturns(analysis_id, ai_ok) ==
    /\ analysis_id \in DOMAIN mcp_task
    /\ mcp_task[analysis_id].pc = "ai_analysis"
    /\ IF ai_ok
       THEN /\ mcp_task' = MapSet(mcp_task, analysis_id,
                                  [mcp_task[analysis_id] EXCEPT !.pc = "executive_summary"])
            /\ UNCHANGED <<analysis_results, mcp_history>>
       ELSE AIStepFails(analysis_id)
    /\ UNCHANGED <<analysis_counter, mcp_deleted, ai_analyzer>>
    /\ UNCHANGED <<det_vars, an_vars, cat_vars, save_vars, pat_vars>>

\* _run_analysis resumed after
\* `await self.ai_analyzer.generate_executive_summary`, to its end
ExecutiveSummaryReturns(analysis_id, ai_ok) ==
    /\ analysis_id \in DOMAIN mcp_task
    /\ mcp_task[analysis_id].pc = "executive_summary"
    /\ IF ai_ok
       THEN UpdateRecord(analysis_id, "completed", "with ai_analysis", "absent", FALSE)
       ELSE AIStepFails(analysis_id)
    /\ UNCHANGED <<analysis_counter, mcp_deleted, ai_analyzer>>
    /\ UNCHANGED <<det_vars, an_vars, cat_vars, save_vars, pat_vars>>

\* DELETE /analysis/{analysis_id}; an unknown id is answered 404
delete_analysis(analysis_id) ==
    /\ IF analysis_id \in DOMAIN analysis_results
       THEN /\ analysis_results' = MapDel(analysis_results, analysis_id)
            /\ mcp_deleted' = mcp_deleted \cup {analysis_id}
       ELSE UNCHANGED <<analysis_results, mcp_deleted>>
    /\ UNCHANGED <<analysis_counter, mcp_task, mcp_history, ai_analyzer>>
    /\ UNCHANGED <<det_vars, an_vars, cat_vars, save_vars, pat_vars>>

\* MCPCompanyAnalysisServer.__init__: the AI analyzer is there when the API
\* key is set and its construction succeeds
InitMCP ==
    /\ known_companies = DefaultKnownCompanies
    /\ det_variant = [i \in Inst |-> "enhanced"]
    /\ det_added = [i \in Inst |-> {}]
    /\ det_result = [i \in Inst |-> NoResult]
    /\ input = StrVal(<<>>)
    /\ oracle = NeutralAnswer
    /\ cleaned = <<>>
    /\ cfg = DefaultConfig
    /\ backend = "available"
    /\ NoAnalysis
    /\ NoCategorizer
    /\ NoSave
    /\ NoPatterns
    /\ analysis_results = EmptyMap
    /\ analysis_counter = 0
    /\ mcp_task = EmptyMap
    /\ mcp_history = EmptyMap
    /\ mcp_deleted = {}
    /\ ai_analyzer \in BOOLEAN

NextMCP ==
    \/ \E exists \in BOOLEAN, enable_ai \in BOOLEAN : analyze_companies(exists, enable_ai)
    \/ \E analysis_id \in AnalysisIds :
          \/ \E outcome \in {"success", "failure", "exception"} :
                RunAnalysis(analysis_id, outcome)
          \/ \E ai_ok \in BOOLEAN : AIAnalysisReturns(analysis_id, ai_ok)
          \/ \E ai_ok \in BOOLEAN : ExecutiveSummaryReturns(analysis_id, ai_ok)
          \/ delete_analysis(analysis_id)

SpecMCP == InitMCP /\ [][NextMCP]_vars

\* ------------------------------------------------------------------ configuration patterns
\* the longest pattern list add_exclude_pattern / add_company_indicator build
MaxPatterns == 2

\* regular expressions re.compile accepts, and one it rejects with re.error
ValidPatterns == {"p0", "p1"}

InvalidPattern == "("

Patterns == ValidPatterns \cup {InvalidPattern}

\* re.compile(pattern, flags): the compiled pattern object
re_compile(pattern, flags) == [pattern |-> pattern, flags |-> flags]

\* [re.compile(pattern, re.IGNORECASE) for pattern in patterns]
CompileAll(patterns) ==
    [k \in 1..Len(patterns) |-> re_compile(patterns[k], "IGNORECASE")]

\* the part of the configuration state a call may change
CacheState == <<pattern_lists, pattern_cache, lru>>

\* the record of a call: its name, argument, return value and whether it
\* changed the lists or the caches
Call(op, kind, returned) ==
    cfg_call' = [op |-> op, kind |-> kind, returned |-> returned,
                 changed |-> CacheState' # CacheState]

\* get_compiled_patterns / get_compiled_company_indicators: lru_cache answers
\* a repeated call from its memo; otherwise the body compiles the list when
\* caching is off or the cache slot is None, and the result is memoized
get_compiled(w) ==
    LET hit  == lru[w].set
        body == IF ~enable_caching \/ ~pattern_cache[w].set
                    THEN CompileAll(pattern_lists[w])
                    ELSE pattern_cache[w].value
    IN  /\ pattern_cache' = IF hit THEN pattern_cache
                                   ELSE [pattern_cache EXCEPT ![w] = Cached(body)]
        /\ lru' = IF hit THEN lru ELSE [lru EXCEPT ![w] = Cached(body)]
        /\ cfg_raised' = FALSE
        /\ UNCHANGED <<pattern_lists, enable_caching>>
        /\ Call("get_compiled", w, IF hit THEN lru[w].value ELSE body)
        /\ UNCHANGED <<det_vars, an_vars, cat_vars, save_vars, srv_vars>>

get_compiled_patterns == get_compiled("exclude_patterns")

get_compiled_company_indicators == get_compiled("company_indicators")

\* clear_cache: both cache slots become None and both lru memos are cleared
clear_cache ==
    /\ pattern_cache' = [w \in PatternKinds |-> None]
    /\ lru' = [w \in PatternKinds |-> None]

\* add_exclude_pattern / add_company_indicator: a pattern re.compile rejects
\* raises ConfigurationError before anything is touched; a valid one is
\* appended and the caches are cleared
add_pattern(w, pattern) ==
    /\ Len(pattern_lists[w]) < MaxPatterns
    /\ IF pattern = InvalidPattern
          THEN /\ cfg_raised' = TRUE
               /\ UNCHANGED <<pattern_lists, pattern_cache, lru>>
          ELSE /\ pattern_lists' = [pattern_lists EXCEPT ![w] = Append(@, pattern)]
               /\ clear_cache
               /\ cfg_raised' = FALSE
    /\ UNCHANGED enable_caching
    /\ Call("add", w, <<>>)
    /\ UNCHANGED <<det_vars, an_vars, cat_vars, save_vars, srv_vars>>

add_exclude_pattern(pattern) == add_pattern("exclude_patterns", pattern)

add_company_indicator(pattern) == add_pattern("company_indicators", pattern)

\* the pattern lists a configuration file may carry
FileLists == {<<>>, <<"p1">>, <<"p1", "p0">>}

\* a file that cannot be read: missing, unparsable or of an unsupported suffix
UnreadableFile ==
    [readable |-> FALSE,
     has_exclude_patterns |-> FALSE, exclude_patterns |-> <<>>,
     has_company_indicators |-> FALSE, company_indicators |-> <<>>,
     has_enable_caching |-> FALSE, enable_caching |-> TRUE]

\* configuration files: the unreadable one, or a mapping that may carry each
\* of the keys modelled here (a key the file lacks has no value to choose)
ConfigFiles ==
    {UnreadableFile} \cup
    {data \in [readable : {TRUE},
               has_exclude_patterns : BOOLEAN, exclude_patterns : FileLists,
               has_company_indicators : BOOLEAN, company_indicators : FileLists,
               has_enable_caching : BOOLEAN, enable_caching : BOOLEAN] :
        /\ ~data.has_exclude_patterns => data.exclude_patterns = <<>>
        /\ ~data.has_company_indicators => data.company_indicators = <<>>
        /\ ~data.has_enable_caching => data.enable_caching = TRUE}

\* the pattern lists after setattr(self, key, value) for every key of data
Applied(lists, data) ==
    [w \in PatternKinds |->
        IF w = "exclude_patterns"
           THEN (IF data.has_exclude_patterns THEN data.exclude_patterns ELSE lists[w])
           ELSE (IF data.has_company_indicators THEN data.company_indicators
                                                ELSE lists[w])]

\* load_from_file: every known key of the file is set on the object; a file
\* that cannot be read raises ConfigurationError; the caches are not touched
load_from_file(data) ==
    /\ IF data.readable
          THEN /\ pattern_lists' = Applied(pattern_lists, data)
               /\ enable_caching' = IF data.has_enable_caching THEN data.enable_caching
                                                               ELSE enable_caching
               /\ cfg_raised' = FALSE
          ELSE /\ cfg_raised' = TRUE
               /\ UNCHANGED <<pattern_lists, enable_caching>>
    /\ UNCHANGED <<pattern_cache, lru>>
    /\ Call("load_from_file", "none", <<>>)
    /\ UNCHANGED <<det_vars, an_vars, cat_vars, save_vars, srv_vars>>

\* reload: clear_cache, the defaults, then the file when one is given (an
\* unreadable one raises with the defaults in place), then validate, which
\* accepts the patterns of FileLists
reload(given, data) ==
    /\ clear_cache
    /\ IF given /\ data.readable
          THEN /\ pattern_lists' = Applied(DefaultPatternLists, data)
               /\ enable_caching' = IF data.has_enable_caching THEN data.enable_caching
                                                               ELSE TRUE
               /\ cfg_raised' = FALSE
          ELSE /\ pattern_lists' = DefaultPatternLists
               /\ enable_caching' = TRUE
               /\ cfg_raised' = given
    /\ Call("reload", "none", <<>>)
    /\ UNCHANGED <<det_vars, an_vars, cat_vars, save_vars, srv_vars>>

\* the module-level configuration object, config = AnalyzerConfig()
InitPatterns ==
    /\ known_companies = DefaultKnownCompanies
    /\ det_variant = [i \in Inst |-> "enhanced"]
    /\ det_added = [i \in Inst |-> {}]
    /\ det_result = [i \in Inst |-> NoResult]
    /\ input = StrVal(<<>>)
    /\ oracle = NeutralAnswer
    /\ cleaned = <<>>
    /\ cfg = DefaultConfig
    /\ backend = "available"
    /\ NoAnalysis
    /\ NoCategorizer
    /\ NoSave
    /\ NoServer
    /\ NoPatterns

NextPatterns ==
    \/ get_compiled_patterns
    \/ get_compiled_company_indicators
    \/ \E pattern \in Patterns : add_exclude_pattern(pattern)
    \/ \E pattern \in Patterns : add_company_indicator(pattern)
    \/ \E data \in ConfigFiles : load_from_file(data)
    \/ reload(FALSE, UnreadableFile)
    \/ \E data \in ConfigFiles : reload(TRUE, data)

SpecPatterns == InitPatterns /\ [][NextPatterns]_vars

\* ------------------------------------------------------------------ properties
\* C5: the name cleaner is idempotent: cleaning a cleaned name changes nothing
C5_CleanIdempotent == Len(cleaned) = 2 => cleaned[2] = cleaned[1]


\* instance i has classified the input
Classified(i) == det_result[i] # NoResult

\* the checks that precede the known-company check in the active variant
RejectedEarlier(variant, v) ==
    \/ Falsy(v)
    \/ StrLen(v.s) < (IF variant = "enhanced" THEN 2 ELSE min_company_name_length)
    \/ is_technical_file(StrVal(Strip(v.s)))
    \/ /\ variant = "enhanced"
       /\ \/ is_version_number(Strip(v.s))
          \/ is_technical_reference(Strip(v.s))
          \/ is_document_structure(Strip(v.s))

\* the result of the known-company short-circuit
IsKnownCompanyResult(i) ==
    /\ ~det_result[i].raised
    /\ det_result[i].is_company
    /\ det_result[i].confidence = FOne
    /\ det_variant[i] = "enhanced" => det_result[i].reasons = <<"known_company">>

MatchesExclusion(v) ==
    /\ v.kind = "str"
    /\ \E k \in 1..Len(exclude_patterns) : PatternMatch(exclude_patterns[k], v.s)

\* C4 as stated: a name matching an exclusion pattern is rejected by both
\* variants, by Enhanced with confidence 0.0 and reason technical_file
C4_ExclusionTechnicalFile ==
    \A i \in Inst :
        (Classified(i) /\ MatchesExclusion(input))
            => /\ ~det_result[i].raised
               /\ ~det_result[i].is_company
               /\ det_variant[i] = "enhanced"
                    => /\ det_result[i].confidence = FZero
                       /\ det_result[i].reasons = <<"technical_file">>

\* C4 amended: a name matching an exclusion pattern is rejected by both
\* variants even when a company indicator or the capitalization rule
\* matches; Enhanced reports confidence 0.0 and reason technical_file, or
\* too_short when the name has fewer than 2 characters
C4_ExclusionPrecedence ==
    \A i \in Inst :
        (Classified(i) /\ MatchesExclusion(input))
            => /\ ~det_result[i].raised
               /\ ~det_result[i].is_company
               /\ det_variant[i] = "enhanced"
                    => /\ det_result[i].confidence = FZero
                       /\ det_result[i].reasons =
                            IF StrLen(input.s) < 2 THEN <<"too_short">>
                            ELSE <<"technical_file">>

\* C4 witness: a name that matches an exclusion pattern and a company
\* indicator has been rejected by a Basic and by an Enhanced instance
C4_Witness ==
    /\ MatchesExclusion(input)
    /\ AnyIndicator(Strip(input.s))
    /\ \E i \in Inst : /\ Classified(i) /\ det_variant[i] = "enhanced"
                       /\ det_result[i].reasons = <<"technical_file">>
    /\ \E i \in Inst : /\ Classified(i) /\ det_variant[i] = "basic"
                       /\ ~det_result[i].is_company

\* C6: an instance's classification depends only on the default registry
\* and on the names that instance added itself, never on what another
\* instance added
C6_RunIsolation ==
    \A i \in Inst :
        get_detection_details(det_variant[i], input, DetectorKnown(i), oracle)
            = get_detection_details(det_variant[i], input,
                                    DefaultKnownCompanies \cup det_added[i], oracle)

\* C8: the reported confidence lies in [0, 1]
C8_ConfidenceInUnitInterval ==
    \A i \in Inst :
        (Classified(i) /\ ~det_result[i].raised)
            => /\ ~FGreater(FZero, det_result[i].confidence)
               /\ ~FGreater(det_result[i].confidence, FOne)

\* C9: reasons is non-empty whenever the result is a rejection or its
\* confidence is below 1.0
C9_ReasonsNonEmpty ==
    \A i \in Inst :
        (/\ Classified(i)
         /\ ~det_result[i].raised
         /\ ~det_result[i].is_company \/ FGreater(FOne, det_result[i].confidence))
            => det_result[i].reasons # <<>>

\* C10: classification never raises, and null, empty or non-string input is
\* rejected with confidence 0
C10_NeverRaises ==
    \A i \in Inst :
        Classified(i)
            => /\ ~det_result[i].raised
               /\ (input.kind # "str" \/ input.s = <<>>)
                    => ~det_result[i].is_company /\ det_result[i].confidence = FZero


\* ------------------------------------------------------------------ CSV source
\* the rows a dataset is drawn from
RowCatalogue ==
    { [name |-> StrVal(<<"Acme">>), path |-> "p1", modified_by |-> "bob", item_type |-> "Folder"],
      [name |-> StrVal(<<"AU", " ", "Acme">>), path |-> "p2", modified_by |-> "amy", item_type |-> "File"],
      [name |-> StrVal(<<"2023", " ", "Acme">>), path |-> "p3", modified_by |-> "bob", item_type |-> "Folder"],
      [name |-> NaNVal, path |-> "p4", modified_by |-> "amy", item_type |-> "File"],
      [name |-> StrVal(<<>>), path |-> "", modified_by |-> "", item_type |-> ""] }

RECURSIVE RowSeqs(_)
RowSeqs(n) ==
    IF n = 0 THEN {<<>>}
    ELSE {Append(s, r) : s \in RowSeqs(n - 1), r \in RowCatalogue}

Datasets == UNION {RowSeqs(n) : n \in 1..MaxRows}

\* CSVProcessor.get_chunks: encodings = ['utf-8', 'utf-8-sig', 'latin1']
encodings == <<"utf-8", "utf-8-sig", "latin1">>

\* pandas fails to read row r of the file under encoding e: a byte that is
\* not UTF-8 raises UnicodeDecodeError under utf-8 and utf-8-sig and decodes
\* under latin1; a malformed row raises ParserError under every encoding
ReadFails(e, r) ==
    /\ file_state.row = r
    /\ \/ file_state.kind = "parse"
       \/ file_state.kind = "decode" /\ e \in {"utf-8", "utf-8-sig"}

\* CSVProcessor.validate_file: the file exists and its first row can be read
\* (pd.read_csv with the default encoding, nrows=1)
validate_file ==
    /\ file_state.kind # "missing"
    /\ ~(file_rows # <<>> /\ ReadFails("utf-8", 1))

Min(a, b) == IF a < b THEN a ELSE b

\* CSVProcessor.get_chunks resumed: the generator stands in encoding number
\* enc with pos rows yielded.  It yields the next chunk, returns when the
\* rows are exhausted, moves to the next encoding (from the first row) when
\* reading the chunk fails, and raises when no encoding is left.
RECURSIVE get_chunks(_, _, _)
get_chunks(size, enc, pos) ==
    IF enc > Len(encodings) THEN [kind |-> "raise", enc |-> enc, lo |-> 0, hi |-> 0]
    ELSE IF pos >= Len(file_rows) THEN [kind |-> "return", enc |-> enc, lo |-> 0, hi |-> 0]
    ELSE LET hi == Min(pos + size, Len(file_rows))
         IN  IF \E r \in (pos + 1)..hi : ReadFails(encodings[enc], r)
             THEN get_chunks(size, enc + 1, 0)
             ELSE [kind |-> "yield", enc |-> enc, lo |-> pos + 1, hi |-> hi]

\* ------------------------------------------------------------------ analyzer
\* the type filter of _process_chunk: the row is skipped
TypeFiltered(row) ==
    /\ filter_type # "all"
    /\ \/ filter_type = "folders" /\ row.item_type # "Folder"
       \/ filter_type = "files" /\ row.item_type = "Folder"

\* the backend answers for a cleaned name
AnswerFor(text) == IF text \in DOMAIN nlp_answers THEN nlp_answers[text] ELSE NeutralAnswer

\* self.company_detector.is_likely_company(v) of analyzer i: [raised, value]
AnalyzerClassifies(i, v) ==
    IF det_variant[i] = "enhanced"
    THEN is_likely_company_enhanced(v, DetectorKnown(i), AnswerFor(Strip(Str(v))))
    ELSE is_likely_company_basic(v, DetectorKnown(i))

\* the defaultdict factory of self.company_details
NewDetail == [folders |-> {}, paths |-> {}, modified_by |-> {}, count |-> 0, file_types |-> {}]

\* the detail record without the path of the accepted row
AddDetail_without_path(details, cleaned_name, row) ==
    LET old == IF cleaned_name \in DOMAIN details THEN details[cleaned_name] ELSE NewDetail
        new == [folders |-> old.folders \cup {row.name},
                paths |-> old.paths,
                modified_by |-> old.modified_by \cup {row.modified_by},
                count |-> old.count + 1,
                file_types |-> IF row.item_type # "" THEN old.file_types \cup {row.item_type}
                               ELSE old.file_types]
    IN  [k \in DOMAIN details \cup {cleaned_name} |->
            IF k = cleaned_name THEN new ELSE details[k]]

\* the detail record of a name after one more accepted row
AddDetail(details, cleaned_name, row) ==
    LET old == IF cleaned_name \in DOMAIN details THEN details[cleaned_name] ELSE NewDetail
        new == [folders |-> old.folders \cup {row.name},
                paths |-> old.paths \cup {row.path},
                modified_by |-> old.modified_by \cup {row.modified_by},
                count |-> old.count + 1,
                file_types |-> IF row.item_type # "" THEN old.file_types \cup {row.item_type}
                               ELSE old.file_types]
    IN  [k \in DOMAIN details \cup {cleaned_name} |->
            IF k = cleaned_name THEN new ELSE details[k]]

\* the row loop body with the raw name handed to the classifier
ProcessRow_unconverted(i, acc, row) ==
    LET counted == [acc EXCEPT !.stats.total_rows_processed = @ + 1, !.iterated = @ + 1]
    IN  IF is_technical_file(row.name)
        THEN [counted EXCEPT !.stats.technical_files_filtered = @ + 1]
        ELSE IF TypeFiltered(row)
        THEN [counted EXCEPT !.stats.type_filtered = @ + 1]
        ELSE LET cleaned_name == clean_company_name(row.name)
                 verdict == AnalyzerClassifies(i, row.name)
             IN  IF verdict.raised THEN [counted EXCEPT !.raised = TRUE]
                 ELSE IF verdict.value
                 THEN [counted EXCEPT
                          !.details = AddDetail(@, cleaned_name, row),
                          !.chunk_companies = Append(@, cleaned_name)]
                 ELSE counted

\* the row loop body with the type filter applied before the exclusion
\* filter
ProcessRow_type_first(i, acc, row) ==
    LET counted == [acc EXCEPT !.stats.total_rows_processed = @ + 1, !.iterated = @ + 1]
    IN  IF TypeFiltered(row)
        THEN [counted EXCEPT !.stats.type_filtered = @ + 1]
        ELSE IF is_technical_file(row.name)
        THEN [counted EXCEPT !.stats.technical_files_filtered = @ + 1]
        ELSE LET cleaned_name == clean_company_name(row.name)
                 verdict == AnalyzerClassifies(i, StrVal(cleaned_name))
             IN  IF verdict.raised THEN [counted EXCEPT !.raised = TRUE]
                 ELSE IF verdict.value
                 THEN [counted EXCEPT
                          !.details = AddDetail(@, cleaned_name, row),
                          !.chunk_companies = Append(@, cleaned_name)]
                 ELSE counted

\* one iteration of the row loop of _process_chunk; acc carries the
\* details, the stats, the list chunk_companies, the number of rows
\* iterated and whether the iteration raised
ProcessRow(i, acc, row) ==
    LET counted == [acc EXCEPT !.stats.total_rows_processed = @ + 1, !.iterated = @ + 1]
    IN  IF is_technical_file(row.name)
        THEN [counted EXCEPT !.stats.technical_files_filtered = @ + 1]
        ELSE IF TypeFiltered(row)
        THEN [counted EXCEPT !.stats.type_filtered = @ + 1]
        ELSE LET cleaned_name == clean_company_name(row.name)
                 verdict == AnalyzerClassifies(i, StrVal(cleaned_name))
             IN  IF verdict.raised THEN [counted EXCEPT !.raised = TRUE]
                 ELSE IF verdict.value
                 THEN [counted EXCEPT
                          !.details = AddDetail(@, cleaned_name, row),
                          !.chunk_companies = Append(@, cleaned_name)]
                 ELSE counted

\* CompanyAnalyzer._process_chunk over the rows lo..hi
RECURSIVE _process_chunk(_, _, _, _)
_process_chunk(i, acc, lo, hi) ==
    IF lo > hi \/ acc.raised THEN acc
    ELSE _process_chunk(i, ProcessRow(i, acc, file_rows[lo]), lo + 1, hi)

\* number of occurrences of x in the sequence
Occurrences(seq, x) == Cardinality({j \in 1..Len(seq) : seq[j] = x})

\* a Counter built from the distinct names only
Counter_of_set(seq) == [k \in {seq[j] : j \in 1..Len(seq)} |-> 1]

\* collections.Counter(list)
Counter(seq) == [k \in {seq[j] : j \in 1..Len(seq)} |-> Occurrences(seq, k)]

\* analyze() of analyzer i returns: the call is counted, and what the first
\* call left is kept for comparison
RunEnds(i) ==
    /\ an_runs' = [an_runs EXCEPT ![i] = @ + 1]
    /\ first_run' = IF an_runs[i] = 0
                    THEN [first_run EXCEPT ![i] =
                            [companies |-> companies'[i],
                             company_details |-> company_details'[i],
                             stats |-> stats'[i]]]
                    ELSE first_run

\* analyze() up to the chunk loop, with _process_csv_file not resetting
\* the detail map and the counters
EnterAnalyze_without_reset(i) ==
    /\ IF validate_file
       THEN /\ an_pc' = [an_pc EXCEPT ![i] = "running"]
            /\ companies' = [companies EXCEPT ![i] = EmptyMap]
            /\ all_companies' = [all_companies EXCEPT ![i] = <<>>]
            /\ gen' = [gen EXCEPT ![i] = [enc |-> 1, pos |-> 0]]
            /\ UNCHANGED <<an_ok, an_runs, first_run, company_details, stats>>
       ELSE /\ an_pc' = [an_pc EXCEPT ![i] = "done"]
            /\ an_ok' = [an_ok EXCEPT ![i] = FALSE]
            /\ UNCHANGED <<companies, company_details, stats, all_companies, gen>>
            /\ RunEnds(i)
    /\ handed' = [handed EXCEPT ![i] = <<>>]
    /\ UNCHANGED <<file_rows, file_state, nlp_answers, filter_type, chunk_size>>
    /\ UNCHANGED <<det_vars, cat_vars, save_vars, srv_vars, pat_vars>>

\* CompanyAnalyzer.analyze up to the chunk loop: validation, then the reset
\* at the head of _process_csv_file
EnterAnalyze(i) ==
    /\ IF validate_file
       THEN /\ an_pc' = [an_pc EXCEPT ![i] = "running"]
            /\ companies' = [companies EXCEPT ![i] = EmptyMap]
            /\ company_details' = [company_details EXCEPT ![i] = EmptyMap]
            /\ stats' = [stats EXCEPT ![i] = [@ EXCEPT !.total_rows_processed = 0,
                                                       !.technical_files_filtered = 0,
                                                       !.type_filtered = 0]]
            /\ all_companies' = [all_companies EXCEPT ![i] = <<>>]
            /\ gen' = [gen EXCEPT ![i] = [enc |-> 1, pos |-> 0]]
            /\ UNCHANGED <<an_ok, an_runs, first_run>>
       ELSE /\ an_pc' = [an_pc EXCEPT ![i] = "done"]
            /\ an_ok' = [an_ok EXCEPT ![i] = FALSE]
            /\ UNCHANGED <<companies, company_details, stats, all_companies, gen>>
            /\ RunEnds(i)
    /\ handed' = [handed EXCEPT ![i] = <<>>]
    /\ UNCHANGED <<file_rows, file_state, nlp_answers, filter_type, chunk_size>>
    /\ UNCHANGED <<det_vars, cat_vars, save_vars, srv_vars, pat_vars>>

\* the first analyze() call of analyzer i.  A run is one synchronous call;
\* the host runs the analyzers one after the other.
Analyze(i) ==
    /\ an_pc[i] = "idle"
    /\ \A j \in Inst : j < i => an_pc[j] = "done"
    /\ EnterAnalyze(i)

\* analyze() called again on analyzer i, over the same source, before any
\* other analyzer is used
Reanalyze(i) ==
    /\ an_pc[i] = "done"
    /\ an_runs[i] < MaxRuns
    /\ \A j \in Inst : j # i => an_pc[j] = "idle"
    /\ EnterAnalyze(i)

\* one turn of `for chunk in self.csv_processor.get_chunks()`: the generator
\* yields a chunk, which _process_chunk consumes.  company_details and
\* stats are written in place; an exception raised in the row loop leaves
\* the loop and is caught by analyze(), which returns False.
NextChunk(i) ==
    /\ an_pc[i] = "running"
    /\ LET g == get_chunks(chunk_size[i], gen[i].enc, gen[i].pos)
           acc == _process_chunk(i, [details |-> company_details[i], stats |-> stats[i],
                                     chunk_companies |-> <<>>, iterated |-> 0,
                                     raised |-> FALSE], g.lo, g.hi)
       IN  /\ g.kind = "yield"
           /\ gen' = [gen EXCEPT ![i] = [enc |-> g.enc, pos |-> g.hi]]
           /\ company_details' = [company_details EXCEPT ![i] = acc.details]
           /\ stats' = [stats EXCEPT ![i] = acc.stats]
           /\ handed' = [handed EXCEPT ![i] = @ \o [j \in 1..acc.iterated |-> g.lo + j - 1]]
           /\ UNCHANGED companies
           /\ IF acc.raised
              THEN /\ an_pc' = [an_pc EXCEPT ![i] = "done"]
                   /\ an_ok' = [an_ok EXCEPT ![i] = FALSE]
                   /\ UNCHANGED all_companies
                   /\ RunEnds(i)
              ELSE /\ all_companies' = [all_companies EXCEPT ![i] = @ \o acc.chunk_companies]
                   /\ UNCHANGED <<an_pc, an_ok, an_runs, first_run>>
    /\ UNCHANGED <<file_rows, file_state, nlp_answers, filter_type, chunk_size>>
    /\ UNCHANGED <<det_vars, cat_vars, save_vars, srv_vars, pat_vars>>

\* the generator is exhausted: the tail of _process_csv_file, and analyze()
\* returns True
Finish(i) ==
    /\ an_pc[i] = "running"
    /\ get_chunks(chunk_size[i], gen[i].enc, gen[i].pos).kind = "return"
    /\ companies' = [companies EXCEPT ![i] = Counter(all_companies[i])]
    /\ stats' = [stats EXCEPT ![i] = [@ EXCEPT !.companies_found =
                                         Cardinality(DOMAIN Counter(all_companies[i]))]]
    /\ an_pc' = [an_pc EXCEPT ![i] = "done"]
    /\ an_ok' = [an_ok EXCEPT ![i] = TRUE]
    /\ UNCHANGED <<file_rows, file_state, nlp_answers, filter_type, chunk_size,
                   company_details, all_companies, gen, handed>>
    /\ RunEnds(i)
    /\ UNCHANGED <<det_vars, cat_vars, save_vars, srv_vars, pat_vars>>

\* the generator raises "Could not read CSV file with any supported
\* encoding": analyze() catches it and returns False
Abort(i) ==
    /\ an_pc[i] = "running"
    /\ get_chunks(chunk_size[i], gen[i].enc, gen[i].pos).kind = "raise"
    /\ an_pc' = [an_pc EXCEPT ![i] = "done"]
    /\ an_ok' = [an_ok EXCEPT ![i] = FALSE]
    /\ UNCHANGED <<file_rows, file_state, nlp_answers, filter_type, chunk_size,
                   companies, company_details, stats, all_companies, gen, handed>>
    /\ RunEnds(i)
    /\ UNCHANGED <<det_vars, cat_vars, save_vars, srv_vars, pat_vars>>

\* the position at which the Counter built from seq inserted the key x
FirstOccurrence(seq, x) == CHOOSE j \in 1..Len(seq) : seq[j] = x /\ \A q \in 1..(j - 1) : seq[q] # x

\* Counter.most_common(n) of the Counter c built from seq: the n largest
\* (name, count) pairs by count; equal counts keep the insertion order
RECURSIVE most_common(_, _, _, _)
most_common(c, seq, n, taken) ==
    LET rest == DOMAIN c \ taken
    IN  IF n = 0 \/ rest = {} THEN <<>>
        ELSE LET best == CHOOSE k \in rest : \A q \in rest :
                             \/ c[k] > c[q]
                             \/ c[k] = c[q] /\ FirstOccurrence(seq, k) <= FirstOccurrence(seq, q)
             IN  <<<<best, c[best]>>>> \o most_common(c, seq, n - 1, taken \cup {best})

\* CompanyAnalyzer.get_top_companies(n) after a run; self.companies was
\* built from the list all_companies
get_top_companies(i, n) == most_common(companies[i], all_companies[i], n, {})

\* the cleaned names of a dataset that can reach the scoring steps
ScoredNames(rows) == {clean_company_name(rows[j].name) : j \in 1..Len(rows)}

FileStates(rows) ==
    {[kind |-> "ok", row |-> 0], [kind |-> "missing", row |-> 0]}
    \cup [kind : {"decode", "parse"}, row : 1..Len(rows)]

\* Two analyzers with the Enhanced classifier read the same file.  The NLTK
\* data is not installed, so the spaCy answer decides whether a cleaned
\* name is accepted.
Init ==
    /\ known_companies = DefaultKnownCompanies
    /\ det_variant = [i \in Inst |-> "enhanced"]
    /\ det_added = [i \in Inst |-> {}]
    /\ det_result = [i \in Inst |-> NoResult]
    /\ input = NoneVal
    /\ oracle = NeutralAnswer
    /\ cleaned = <<>>
    /\ cfg = DefaultConfig
    /\ backend = "available"
    /\ NoCategorizer
    /\ NoSave
    /\ NoServer
    /\ NoPatterns
    /\ file_rows \in Datasets
    /\ file_state \in FileStates(file_rows)
    /\ nlp_answers \in {f \in [ScoredNames(file_rows) ->
                                  [org : BOOLEAN, spacy_ok : {TRUE}, nltk_ok : {FALSE}, np : {0}]] :
                           \A t \in DOMAIN f : f[t] \in BackendAnswers(t)}
    /\ filter_type \in {"all", "folders", "files"}
    /\ chunk_size \in {c \in [Inst -> 1..MaxRows] : c[1] <= c[2]}
    /\ an_pc = [i \in Inst |-> "idle"]
    /\ an_ok = [i \in Inst |-> "none"]
    /\ companies = [i \in Inst |-> EmptyMap]
    /\ company_details = [i \in Inst |-> EmptyMap]
    /\ stats = [i \in Inst |-> ZeroStats]
    /\ all_companies = [i \in Inst |-> <<>>]
    /\ gen = [i \in Inst |-> [enc |-> 1, pos |-> 0]]
    /\ handed = [i \in Inst |-> <<>>]
    /\ an_runs = [i \in Inst |-> 0]
    /\ first_run = [i \in Inst |-> NoRun]

Next == \E i \in Inst : Analyze(i) \/ NextChunk(i) \/ Finish(i) \/ Abort(i)

Spec == Init /\ [][Next]_vars

\* the same analyzers, each of which may be asked to analyze again
NextRerun == Next \/ \E i \in Inst : Reanalyze(i)

SpecRerun == Init /\ [][NextRerun]_vars


\* ------------------------------------------------------------------ analyzer properties
\* analyze() of analyzer i has returned True
Succeeded(i) == an_pc[i] = "done" /\ an_ok[i] = TRUE

\* the source rows whose cleaned name is k
RowsCleaningTo(k) == {r \in 1..Len(file_rows) : clean_company_name(file_rows[r].name) = k}

\* the hand-overs of a row to row processing in which the row passes the
\* exclusion filter (on its raw name) and the type filter and cleans to k
CountedHandOvers(i, k) ==
    {j \in 1..Len(handed[i]) :
        LET row == file_rows[handed[i][j]]
        IN  /\ ~is_technical_file(row.name)
            /\ ~TypeFiltered(row)
            /\ clean_company_name(row.name) = k}

C2_BatchSizeInvariance ==
    (Succeeded(1) /\ Succeeded(2))
        => companies[1] = companies[2] /\ company_details[1] = company_details[2]

\* C7: when analyze() returns False, neither the frequency map nor the
\* detail map holds an entry
C7_AllOrNothing ==
    \A i \in Inst :
        (an_pc[i] = "done" /\ an_ok[i] = FALSE)
            => DOMAIN companies[i] = {} /\ DOMAIN company_details[i] = {}


\* ------------------------------------------------------------------ categorizer properties
\* C11: categorize_name is total on strings: for every string, the empty
\* string and whitespace-only strings included, it returns without raising
\* a non-null (category, description) pair whose category is a known one
C11_CategorizeTotal ==
    (cat_result # NoCategory /\ input.kind = "str")
        => /\ ~cat_result.raised
           /\ cat_result.category \in KnownCategories
           /\ cat_result.description # "null"

\* a whitespace-only string was categorized
C11_Witness ==
    /\ cat_result # NoCategory
    /\ input.kind = "str"
    /\ input.s # <<>>
    /\ Strip(input.s) = <<>>
    /\ cat_result.category = "Short Code"


\* ------------------------------------------------------------------ construction properties
\* C12: when the Enhanced backend cannot be initialized the active
\* classifier is the Basic variant and the metadata says so: the metadata
\* (using_enhanced_detector) reports 'enhanced' only when the backend is
\* actually available.  Stated of an analyzer that has classified a name.
C12_EnhancedOnlyWithBackend ==
    \A i \in Inst :
        (Classified(i) /\ det_variant[i] = "enhanced") => backend = "available"


\* ------------------------------------------------------------------ run properties
\* the source rows processed so far by analyzer i whose cleaned name is k
ProcessedRowsCleaningTo(i, k) ==
    {r \in {handed[i][j] : j \in 1..Len(handed[i])} : clean_company_name(file_rows[r].name) = k}

\* C13: frequency bound: at every point of a run and at its end, the
\* frequency and the detail count recorded for a name never exceed the
\* number of rows processed so far whose cleaned name is that name
C13_FrequencyBound ==
    \A i \in Inst :
        /\ \A k \in DOMAIN company_details[i] :
              company_details[i][k].count <= Cardinality(ProcessedRowsCleaningTo(i, k))
        /\ \A k \in DOMAIN companies[i] :
              companies[i][k] <= Cardinality(ProcessedRowsCleaningTo(i, k))

\* a malformed row: the name is missing (an empty cell is read as NaN, an
\* unmapped column defaults to ''), or a field is missing
Malformed(row) ==
    \/ row.name.kind # "str"
    \/ row.name.s = <<>>
    \/ row.path = ""
    \/ row.item_type = ""

\* C17: a malformed row never aborts the batch or the run: in a readable
\* file holding malformed rows every row is iterated once, in order, the
\* rows after a malformed one included, and analyze() returns True
C17_MalformedRowsTolerated ==
    \A i \in Inst :
        (/\ file_state.kind = "ok"
         /\ \E r \in 1..Len(file_rows) : Malformed(file_rows[r])
         /\ an_pc[i] # "idle")
            => /\ handed[i] = [j \in 1..gen[i].pos |-> j]
               /\ stats[i].total_rows_processed = gen[i].pos
               /\ an_pc[i] = "done" => an_ok[i] = TRUE /\ gen[i].pos = Len(file_rows)

\* C17 witness: a successful run counted a company from a row that follows
\* a malformed row
C17_Witness ==
    \E i \in Inst :
        /\ Succeeded(i)
        /\ file_state.kind = "ok"
        /\ \E r \in 1..Len(file_rows) : \E q \in 1..Len(file_rows) :
              /\ r < q
              /\ Malformed(file_rows[r])
              /\ ~Malformed(file_rows[q])
              /\ clean_company_name(file_rows[q].name) \in DOMAIN companies[i]

\* C15: for any dataset, the number of unique companies and the top-N
\* ranking returned by get_top_companies, names of equal frequency in the
\* same order, are the same for any two chunk sizes
C15_TopRankingBatchInvariance ==
    (Succeeded(1) /\ Succeeded(2))
        => /\ Cardinality(DOMAIN companies[1]) = Cardinality(DOMAIN companies[2])
           /\ stats[1].companies_found = stats[2].companies_found
           /\ \A n \in 1..MaxRows : get_top_companies(1, n) = get_top_companies(2, n)


\* ------------------------------------------------------------------ scoring properties
\* instance i has classified the input with the Enhanced classifier and the
\* candidate reached the scoring steps
Scored(i) ==
    /\ Classified(i)
    /\ det_variant[i] = "enhanced"
    /\ det_result[i].scored

\* C14: the Enhanced accept decision uses the configured threshold:
\* isCompany is true iff the accumulated confidence is strictly greater than
\* config.confidence_threshold
C14_UsesConfiguredThreshold ==
    \A i \in Inst :
        Scored(i) => (det_result[i].is_company
                        <=> FGreater(det_result[i].score, confidence_threshold))

\* C16: when a backend call fails for a candidate, the classification does
\* not raise and the decision is the one the Basic variant makes for it
C16_BackendFailureFallsBackToBasic ==
    \A i \in Inst :
        (Scored(i) /\ (~oracle.spacy_ok \/ ~oracle.nltk_ok))
            => /\ ~det_result[i].raised
               /\ det_result[i].is_company
                    = is_likely_company_basic(input, det_result[i].registry).value

\* the reasons of the five rejections, in the order of the claim
RejectionReasons ==
    <<"too_short", "technical_file", "version_number", "technical_reference",
      "document_structure">>

\* whether the candidate matches the k-th rejection check, the length check
\* being the one against the configured minimum
MatchesRejection(k, v) ==
    LET text == Strip(Str(v))
    IN  CASE k = 1 -> StrLen(v.s) < min_company_name_length
          [] k = 2 -> is_technical_file(StrVal(text))
          [] k = 3 -> is_version_number(text)
          [] k = 4 -> is_technical_reference(text)
          [] OTHER -> is_document_structure(text)

\* C19: a string candidate that matches one of the five rejection checks is
\* rejected with exactly one reason, that of the first check it matches in
\* the fixed order, and confidence 0; a candidate that matches none of them
\* is not rejected with one of these reasons
C19_RejectionOrder ==
    \A i \in Inst :
        (Classified(i) /\ det_variant[i] = "enhanced" /\ input.kind = "str")
            => LET matching == {k \in 1..Len(RejectionReasons) : MatchesRejection(k, input)}
                   r == det_result[i]
               IN  IF matching # {}
                   THEN LET first == CHOOSE k \in matching : \A j \in matching : k <= j
                        IN  /\ ~r.is_company
                            /\ r.confidence = FZero
                            /\ r.reasons = <<RejectionReasons[first]>>
                   ELSE \A k \in 1..Len(RejectionReasons) :
                            r.reasons # <<RejectionReasons[k]>>

\* the weight of one signal, in tenths
Weight(reason) ==
    CASE reason = "spacy_organization" -> 4
      [] reason = "high_proper_nouns" -> 3
      [] reason = "high_technical_terms" -> -4
      [] reason = "company_indicator" -> 2
      [] reason = "multiple_capitalized" -> 2
      [] reason = "single_proper_noun" -> 1
      [] OTHER -> 0

\* the sum of the weights of the signals of a result, in tenths
RECURSIVE WeightSum(_)
WeightSum(reasons) ==
    IF reasons = <<>> THEN 0 ELSE Weight(Head(reasons)) + WeightSum(Tail(reasons))

\* C20: the raw score of a candidate that reaches scoring is exactly the sum
\* of the weights of the signals that fired, each signal fires at most once,
\* the two capitalization signals exclude each other, and the candidate is
\* accepted iff that sum is strictly greater than 0.3
C20_ScoreIsWeightSum ==
    \A i \in Inst :
        Scored(i)
            => LET r == det_result[i]
                   n == Len(r.reasons)
               IN  /\ \A j, k \in 1..n : r.reasons[j] = r.reasons[k] => j = k
                   /\ ~(\E j, k \in 1..n : /\ r.reasons[j] = "multiple_capitalized"
                                           /\ r.reasons[k] = "single_proper_noun")
                   /\ r.score = <<WeightSum(r.reasons), 0>>
                   /\ r.is_company <=> WeightSum(r.reasons) > 3

\* ------------------------------------------------------------------ output properties
\* C18: every path in the list save_results returned names an output file
\* that was written; called with no companies it returns the empty list; a
\* file whose writer failed in the call has no entry in the list
C18_ReturnedPathsWritten ==
    /\ \A k \in 1..Len(created_files) :
          /\ created_files[k] \in disk
          /\ created_files[k] \notin write_fails
    /\ (save_calls > 0 /\ ~save_companies) => created_files = <<>>

\* ------------------------------------------------------------------ Basic variant properties
\* instance i has classified a string with the Basic classifier, the string
\* passed the length and exclusion checks and is not a known company
BasicDecided(i) ==
    /\ Classified(i)
    /\ det_variant[i] = "basic"
    /\ input.kind = "str"
    /\ ~RejectedEarlier("basic", input)
    /\ Strip(input.s) \notin det_result[i].registry

\* the three accepting conditions of the Basic variant, as the claim words
\* them, for a stripped name
BasicAccepts(name) ==
    LET words == Split(name)
    IN  \/ \E k \in 1..Len(company_indicators) : IndicatorSearch(company_indicators[k], name)
        \/ /\ Len(words) >= 2
           /\ \A k \in 1..Len(words) : IsAlpha(words[k]) /\ FirstUpper(words[k])
        \/ /\ Len(words) = 1
           /\ IsAlpha(words[1])
           /\ FirstUpper(words[1])
           /\ WordLen(words[1]) >= 3
           /\ WordLen(words[1]) <= max_company_name_length
           /\ words[1] \notin exclude_words

\* C21: under the Basic variant a candidate that passes the length and
\* exclusion checks and is not a known company is accepted iff an indicator
\* matches, or it has at least 2 words all alphabetic and capitalized, or it
\* is one alphabetic capitalized word of length 3..max outside the exclude
\* words; the confidence is 1.0 when accepted and 0.0 when rejected
C21_BasicDecision ==
    \A i \in Inst :
        BasicDecided(i)
            => /\ ~det_result[i].raised
               /\ det_result[i].is_company <=> BasicAccepts(Strip(input.s))
               /\ det_result[i].confidence
                    = (IF det_result[i].is_company THEN FOne ELSE FZero)

\* C21 witness: the Basic variant has accepted, with confidence 1.0, a
\* candidate that only the indicator patterns accept
C21_Witness ==
    \E i \in Inst :
        /\ BasicDecided(i)
        /\ det_result[i].is_company
        /\ det_result[i].confidence = FOne
        /\ AnyIndicator(Strip(input.s))
        /\ CapitalizationRule(Strip(input.s)) = "none"

\* ------------------------------------------------------------------ abbreviation properties
\* C22: a name with a visible character that is present in the abbreviation
\* dictionary, as a default entry matched after trimming or as an entry
\* added by add_custom_abbreviation under that name, is categorized
\* ('Abbreviation', its expansion)
C22_DictionaryNameIsAbbreviation ==
    (/\ cat_result # NoCategory
     /\ input.kind = "str"
     /\ Strip(input.s) # <<>>
     /\ \/ Strip(input.s) \in common_abbreviations
        \/ input.s \in cat_abbreviations)
        => cat_result = Category("Abbreviation", "expansion")

\* ------------------------------------------------------------------ row accounting properties
\* C23: in a successful run every data row of the source is handed to row
\* processing exactly once, in source order, and total_rows_processed ends
\* as the number of data rows
C23_EachRowOnce ==
    \A i \in Inst :
        Succeeded(i)
            => /\ handed[i] = [j \in 1..Len(file_rows) |-> j]
               /\ stats[i].total_rows_processed = Len(file_rows)

\* a row the run accepts: excluded neither by pattern nor by the type
\* filter, and its cleaned name is classified as a company
AcceptedRow(i, row) ==
    /\ ~is_technical_file(row.name)
    /\ ~TypeFiltered(row)
    /\ AnalyzerClassifies(i, StrVal(clean_company_name(row.name))).value

\* C24: after a successful analyze() the frequency map and the detail map
\* have the same keys, the detail count of every name is its frequency and
\* is at least 1, companies_found is the number of keys, and the path, the
\* modifier and the raw name of every accepted row are in the detail sets
\* of the row's cleaned name
C24_MapsAgree ==
    \A i \in Inst :
        Succeeded(i)
            => /\ DOMAIN companies[i] = DOMAIN company_details[i]
               /\ \A k \in DOMAIN companies[i] :
                     /\ company_details[i][k].count = companies[i][k]
                     /\ companies[i][k] >= 1
               /\ stats[i].companies_found = Cardinality(DOMAIN companies[i])
               /\ \A j \in 1..Len(handed[i]) :
                     LET row == file_rows[handed[i][j]]
                         k == clean_company_name(row.name)
                     IN  AcceptedRow(i, row)
                            => /\ k \in DOMAIN company_details[i]
                               /\ row.path \in company_details[i][k].paths
                               /\ row.modified_by \in company_details[i][k].modified_by
                               /\ row.name \in company_details[i][k].folders

\* C24 witness: a successful run accepted two rows with different paths
\* under one cleaned name
C24_Witness ==
    \E i \in Inst :
        /\ Succeeded(i)
        /\ \E k \in DOMAIN companies[i] :
              /\ companies[i][k] >= 2
              /\ Cardinality(company_details[i][k].paths) >= 2

\* ------------------------------------------------------------------ repeated runs
\* C25: analyze() called again on the same analyzer over the same source
\* does not accumulate: the frequency map, the detail map and the counters
\* after the second call equal those after the first call
C25_RerunDoesNotAccumulate ==
    \A i \in Inst :
        (an_runs[i] >= 2 /\ an_pc[i] = "done")
            => /\ companies[i] = first_run[i].companies
               /\ company_details[i] = first_run[i].company_details
               /\ stats[i] = first_run[i].stats

\* C25 witness: a second successful call has returned on an analyzer whose
\* maps hold a company
C25_Witness ==
    \E i \in Inst :
        /\ an_runs[i] = 2
        /\ Succeeded(i)
        /\ DOMAIN companies[i] # {}
        /\ stats[i].total_rows_processed > 0

\* ------------------------------------------------------------------ row classes
\* the hand-overs of the current run of analyzer i, by class: 1 excluded by
\* pattern on the raw name, 2 excluded by the type filter, 3 passed to the
\* classifier
RowClass(row) ==
    IF is_technical_file(row.name) THEN 1
    ELSE IF TypeFiltered(row) THEN 2
    ELSE 3

HandOversOfClass(i, c) ==
    {j \in 1..Len(handed[i]) : RowClass(file_rows[handed[i][j]]) = c}

\* the sum of the values of a frequency map
RECURSIVE SumOver(_, _)
SumOver(f, keys) ==
    IF keys = {} THEN 0
    ELSE LET k == CHOOSE x \in keys : TRUE
         IN  f[k] + SumOver(f, keys \ {k})

\* C26: at every point of a run each processed row is in exactly one class:
\* technical_files_filtered counts the rows excluded by pattern,
\* type_filtered the rows not excluded by pattern that the type filter
\* excludes, the rest were classified; the counters add up to
\* total_rows_processed and the frequencies sum to at most the number of
\* classified rows
C26_RowClasses ==
    \A i \in Inst :
        LET classified == Cardinality(HandOversOfClass(i, 3))
        IN  /\ stats[i].total_rows_processed = Len(handed[i])
            /\ stats[i].technical_files_filtered = Cardinality(HandOversOfClass(i, 1))
            /\ stats[i].type_filtered = Cardinality(HandOversOfClass(i, 2))
            /\ stats[i].total_rows_processed
                 = stats[i].technical_files_filtered + stats[i].type_filtered + classified
            /\ SumOver(companies[i], DOMAIN companies[i]) <= classified

\* C26 witness: a successful run counted a company and processed a row that
\* matches an exclusion pattern and that the type filter would exclude too
C26_Witness ==
    \E i \in Inst :
        /\ Succeeded(i)
        /\ DOMAIN companies[i] # {}
        /\ \E j \in 1..Len(handed[i]) :
              /\ is_technical_file(file_rows[handed[i][j]].name)
              /\ TypeFiltered(file_rows[handed[i][j]])

\* ------------------------------------------------------------------ fallback properties
\* one of the stages before the shape fallbacks resolves the trimmed name:
\* the abbreviation dictionary, a pattern rule, a known-company token, an
\* indicator substring or an industry term
EarlierStageResolves(name_clean) ==
    \/ name_clean \in common_abbreviations \cup cat_abbreviations
    \/ \E k \in 1..Len(pattern_rules) : RuleMatch(pattern_rules[k], name_clean)
    \/ \E j \in 1..Len(name_clean) :
          \/ CategorizerKnownWord(name_clean[j])
          \/ ContainsIndicator(name_clean[j])
          \/ ContainsIndustryTerm(name_clean[j])

\* C27: categorize_name never returns 'Unclassified' for a string: the
\* empty string is 'Unknown'; a string that reaches the shape fallbacks is
\* 'Abbreviation' or 'Short Code' when its trimmed length is at most 3, and
\* is resolved by a later shape rule or by the word-count stage otherwise
C27_NeverUnclassified ==
    (cat_result # NoCategory /\ input.kind = "str")
        => /\ cat_result.category # "Unclassified"
           /\ input.s = <<>> => cat_result.category = "Unknown"
           /\ (input.s # <<>> /\ ~EarlierStageResolves(Strip(input.s)))
                => IF StrLen(Strip(input.s)) <= 3
                   THEN cat_result.category \in {"Abbreviation", "Short Code"}
                   ELSE cat_result.category \in
                          {"Code/Reference", "Numeric Code", "Acronym", "Single Name",
                           "Single Term", "Potential Company", "Multi-word Term"}

\* C27 witness: a string of several blanks and no word, the only kind of
\* string with a word count of 0, was categorized by the length stage
C27_Witness ==
    /\ cat_result # NoCategory
    /\ input.kind = "str"
    /\ Len(input.s) >= 2
    /\ Split(input.s) = <<>>
    /\ cat_result.category = "Short Code"

\* ------------------------------------------------------------------ MCP server properties
\* C28: every stored analysis record has status running, completed or
\* failed; it was created running and its status changed at most once, to
\* completed or failed; a completed record carries results and a failed one
\* an error; a task in which only the AI step failed leaves its record
\* completed, with ai_analysis_error in the results
C28_RecordLifecycle ==
    \A id \in DOMAIN analysis_results :
        LET rec == analysis_results[id]
            h == mcp_history[id]
        IN  /\ rec.status \in {"running", "completed", "failed"}
            /\ h \in {<<"running">>, <<"running", "completed">>, <<"running", "failed">>}
            /\ rec.status = h[Len(h)]
            /\ rec.status = "completed" => rec.results # "absent"
            /\ rec.status = "failed" => rec.error # "absent"
            /\ (mcp_task[id].pc = "done" /\ mcp_task[id].ai_failed)
                 => rec.status = "completed" /\ rec.results = "ai_analysis_error"

\* C28 witness: the registry holds a record completed after a failure of the
\* AI step and a record that failed
C28_Witness ==
    \E id, other \in DOMAIN analysis_results :
        /\ mcp_task[id].pc = "done"
        /\ mcp_task[id].ai_failed
        /\ analysis_results[id].status = "completed"
        /\ analysis_results[other].status = "failed"
        /\ analysis_results[other].error # "absent"

\* C29: deleting a record while its background task has not finished is
\* safe: no task ends in an unhandled error and a deleted record does not
\* come back into the registry
C29_DeleteWhileRunning ==
    \A id \in DOMAIN mcp_task :
        /\ mcp_task[id].pc # "unhandled error"
        /\ id \in mcp_deleted => id \notin DOMAIN analysis_results

\* C30: the compiled patterns the configuration hands out are the
\* compilation of the current pattern list, entry by entry and in order,
\* whatever add, load_from_file and reload calls came before; and an add call
\* that raises ConfigurationError has changed neither the lists nor the caches
C30_CacheCoherent ==
    /\ cfg_call.op = "get_compiled"
          => cfg_call.returned = CompileAll(pattern_lists[cfg_call.kind])
    /\ (cfg_call.op = "add" /\ cfg_raised) => ~cfg_call.changed

====
